---- MODULE Spec2Model ----
(***************************************************************************)
(* Model of the Dex Slack bot (src/slack_cortex_dex.py): the reconstruction *)
(* of an answer from the Cortex Agent's event stream (call_cortex_agent),   *)
(* the thinking-step filter (filter_thinking_steps), the button payload     *)
(* budget (truncate_button_value) and the command and action handlers with  *)
(* the de-duplication of /dex commands (handle_dex_command).                *)
(*                                                                          *)
(* A Python str is a sequence of one-character strings, so that strip,      *)
(* lower, split, join, startswith and the substring test are computed and   *)
(* not assumed.                                                             *)
(***************************************************************************)
EXTENDS Integers, Sequences, FiniteSets, TLC

VARIABLES
    pc,                  \* position of the running function
    text,                \* filter_thinking_steps: the text being filtered
    n_pieces,            \* the number of lines text was built from
    filtered,            \* filter_thinking_steps(text)
    refiltered,          \* filter_thinking_steps(filter_thinking_steps(text))
    data,                \* truncate_button_value: the dict it is called with
    button_value,        \* the payload truncate_button_value serialises and returns
    lines_read,          \* call_cortex_agent: the number of response lines consumed
    all_events,          \* the decoded events, in stream order
    final_response,      \* the last event with role "assistant", if any
    metadata,            \* the metadata of an assistant event
    interpretation,
    sql_queries,
    verified_query_info,
    error_message,
    answer_text,
    result,              \* what call_cortex_agent returned
    response,            \* the exchange with the agent endpoint
    formatted,           \* what format_slack_response made of the result
    _command_lock,       \* the keys of the commands being processed
    _recent_commands,    \* deque(maxlen=100) of the keys of the commands seen
    invocations,         \* the handler invocations, each with its position
    cleanup_threads,     \* the keys the started cleanup_lock threads still sleep on
    configured,          \* AGENT_ENDPOINT and PAT are both set
    blocks,              \* the blocks of the posted message, as it is shown now
    clicks,              \* the clicks on the details button of the message
    sheet_rows,          \* kpi_sheet_automation: columns A and B of the sheet
    headers,             \* row 1 of the sheet
    df,                  \* the rows of the latest month
    month_col,           \* the column of the latest month
    pending_updates,     \* the queued single-cell updates
    updated_count,
    skipped_count,
    flush_i,             \* i of the flush loop
    batch_calls,         \* the calls of sheet.batch_update, each with what it did
    cells,               \* the cells written to the sheet, each with its value
    customer_ids,        \* payex_update_payment_types: the batch
    responses,           \* what the request for each customer of the batch meets
    max_workers,
    futures,             \* the futures of the executor, in the order submitted
    records,             \* the records fetch_payment_types_parallel collects
    done_count

filter_vars == <<text, n_pieces, filtered, refiltered>>
button_vars == <<data, button_value, blocks, clicks>>
agent_vars ==
    <<lines_read, all_events, final_response, metadata, interpretation, sql_queries,
      verified_query_info, error_message, answer_text, result, response, formatted>>
dex_vars == <<_command_lock, _recent_commands, invocations, cleanup_threads, configured>>
kpi_vars ==
    <<sheet_rows, headers, df, month_col, pending_updates, updated_count, skipped_count,
      flush_i, batch_calls, cells>>
payex_vars == <<customer_ids, responses, max_workers, futures, records, done_count>>
script_vars == <<kpi_vars, payex_vars>>
vars == <<pc, filter_vars, button_vars, agent_vars, dex_vars, script_vars>>

(***************************************************************************)
(* Python str operations on character sequences                            *)
(***************************************************************************)

\* The least element of a non-empty set of integers
MinOf(S) == CHOOSE i \in S : \A j \in S : i <= j

\* Characters str.strip() removes
Whitespace == {" ", "\n", "\t"}

\* The lower-case form of a character
lower_char(c) ==
    CASE c = "A" -> "a" [] c = "B" -> "b" [] c = "C" -> "c" [] c = "D" -> "d"
      [] c = "E" -> "e" [] c = "F" -> "f" [] c = "G" -> "g" [] c = "H" -> "h"
      [] c = "I" -> "i" [] c = "J" -> "j" [] c = "K" -> "k" [] c = "L" -> "l"
      [] c = "M" -> "m" [] c = "N" -> "n" [] c = "O" -> "o" [] c = "P" -> "p"
      [] c = "Q" -> "q" [] c = "R" -> "r" [] c = "S" -> "s" [] c = "T" -> "t"
      [] c = "U" -> "u" [] c = "V" -> "v" [] c = "W" -> "w" [] c = "X" -> "x"
      [] c = "Y" -> "y" [] c = "Z" -> "z"
      [] OTHER -> c

\* str.lower()
lower(s) == [i \in 1..Len(s) |-> lower_char(s[i])]

\* str.strip()
strip(s) ==
    LET keep == {i \in 1..Len(s) : s[i] \notin Whitespace}
    IN  IF keep = {} THEN <<>>
        ELSE SubSeq(s, MinOf(keep), CHOOSE i \in keep : \A j \in keep : j <= i)

\* str.startswith(p)
startswith(s, p) == Len(p) <= Len(s) /\ SubSeq(s, 1, Len(p)) = p

\* p in s, for strings
contains(s, p) ==
    \E i \in 1..(Len(s) - Len(p) + 1) : SubSeq(s, i, i + Len(p) - 1) = p

\* c.isdigit()
isdigit(c) == c \in {"0", "1", "2", "3", "4", "5", "6", "7", "8", "9"}

\* s.split(sep): cut at the leftmost occurrences of sep, left to right
RECURSIVE split(_, _)
split(s, sep) ==
    LET occ == {i \in 1..(Len(s) - Len(sep) + 1) : SubSeq(s, i, i + Len(sep) - 1) = sep}
    IN  IF occ = {} THEN <<s>>
        ELSE LET i == MinOf(occ)
             IN  <<SubSeq(s, 1, i - 1)>> \o split(SubSeq(s, i + Len(sep), Len(s)), sep)

\* sep.join(parts)
RECURSIVE join(_, _)
join(sep, parts) ==
    IF parts = <<>> THEN <<>>
    ELSE IF Len(parts) = 1 THEN parts[1]
    ELSE parts[1] \o sep \o join(sep, Tail(parts))

NL == <<"\n">>
NLNL == <<"\n", "\n">>

(***************************************************************************)
(* filter_thinking_steps                                                   *)
(***************************************************************************)

thinking_patterns ==
    { <<"t", "h", "e", " ", "u", "s", "e", "r", " ", "i", "s", " ", "a", "s", "k", "i", "n", "g">>,
      <<"l", "e", "t", " ", "m", "e", " ", "q", "u", "e", "r", "y">>,
      <<"i", " ", "n", "e", "e", "d", " ", "t", "o", " ", "u", "s", "e">>,
      <<"i", " ", "h", "a", "v", "e", " ", "t", "h", "e", " ", "s", "q", "l", " ", "r", "e", "s", "u", "l", "t", "s">>,
      <<"w", "a", "i", "t", ",", " ", "t", "h", "i", "s", " ", "s", "e", "e", "m", "s">>,
      <<"a", "c", "t", "u", "a", "l", "l", "y", ",", " ", "l", "o", "o", "k", "i", "n", "g", " ", "a", "t">>,
      <<"l", "e", "t", " ", "m", "e", " ", "c", "h", "e", "c", "k">>,
      <<"t", "h", "i", "s", " ", "s", "e", "e", "m", "s", " ", "t", "o", " ", "b", "e">>,
      <<"t", "h", "i", "s", " ", "i", "s", " ", "q", "u", "a", "n", "t", "i", "t", "a", "t", "i", "v", "e">>,
      <<"i", " ", "n", "e", "e", "d", " ", "t", "o">>,
      <<"l", "e", "t", " ", "m", "e">>,
      <<"t", "h", "i", "s", " ", "s", "e", "e", "m", "s", " ", "i", "n", "c", "o", "r", "r", "e", "c", "t">>,
      <<"l", "o", "o", "k", "i", "n", "g", " ", "a", "t", " ", "t", "h", "e">>,
      <<"c", "h", "e", "c", "k", " ", "i", "f", " ", "t", "h", "e", "r", "e">>,
      <<"t", "h", "e", " ", "r", "e", "s", "u", "l", "t", "s", " ", "s", "h", "o", "w">>,
      <<"e", "a", "r", "l", "i", "e", "s", "t", " ", "t", "e", "r", "m", "i", "n", "a", "t", "i", "o", "n">>,
      <<"l", "a", "t", "e", "s", "t", " ", "t", "e", "r", "m", "i", "n", "a", "t", "i", "o", "n">>,
      <<"s", "p", "a", "n", "n", "i", "n", "g", " ", "f", "r", "o", "m">> }

\* The openers section_lower.startswith((...)) accepts as a final answer
answer_openers ==
    { <<"t", "h", "e", "r", "e">>,
      <<"t", "h", "e">>,
      <<"w", "e", " ", "h", "a", "v", "e">>,
      <<"a", " ", "t", "o", "t", "a", "l">>,
      <<"i", "n", " ", "t", "o", "t", "a", "l">>,
      <<"*">> }

\* The openers that disqualify a long section
meta_openers ==
    { <<"i", " ">>,
      <<"l", "e", "t", " ">>,
      <<"t", "h", "e", " ", "u", "s", "e", "r">>,
      <<"t", "h", "i", "s", " ", "s", "e", "e", "m", "s">> }

\* A section shorter than this is skipped
MinSectionLen == 30
\* A section longer than this may qualify without an answer-like opener
LongSectionLen == 50

\* any(pattern in s for pattern in thinking_patterns)
is_thinking(s) == \E p \in thinking_patterns : contains(s, p)

\* The test of one section in the loop over reversed(all_sections)
looks_like_final_answer(section) ==
    LET section_lower == strip(lower(section))
    IN  /\ Len(section_lower) >= MinSectionLen
        /\ ~is_thinking(section_lower)
        /\ \/ \E p \in answer_openers : startswith(section_lower, p)
           \/ isdigit(section_lower[1])
           \/ /\ Len(section_lower) > LongSectionLen
              /\ ~\E p \in meta_openers : startswith(section_lower, p)

\* all_sections: every paragraph split into its lines
RECURSIVE all_sections(_)
all_sections(paragraphs) ==
    IF paragraphs = <<>> THEN <<>>
    ELSE split(Head(paragraphs), NL) \o all_sections(Tail(paragraphs))

\* The last section that looks like a final answer, stripped; <<>> (None) if none
last_qualifying(sections) ==
    LET ok == {i \in 1..Len(sections) : looks_like_final_answer(sections[i])}
    IN  IF ok = {} THEN <<>>
        ELSE strip(sections[CHOOSE i \in ok : \A j \in ok : j <= i])

\* A variant of final_answer that tests the thinking patterns against the whole
\* text instead of the section
final_answer_whole_text(t) ==
    IF is_thinking(lower(t)) THEN <<>>
    ELSE last_qualifying(all_sections(split(t, NLNL)))

\* final_answer after the loop over reversed(all_sections)
final_answer(t) == last_qualifying(all_sections(split(t, NLNL)))

\* The fallback loop over reversed(paragraphs): the last paragraph longer than
\* 30 characters without a thinking pattern, stripped; <<>> if there is none
fallback_paragraph(paragraphs) ==
    LET ok == {i \in 1..Len(paragraphs) :
                  LET para_lower == strip(lower(paragraphs[i]))
                  IN  Len(para_lower) > MinSectionLen /\ ~is_thinking(para_lower)}
    IN  IF ok = {} THEN <<>>
        ELSE strip(paragraphs[CHOOSE i \in ok : \A j \in ok : j <= i])

\* filter_thinking_steps on a str
filter_thinking_steps(t) ==
    IF t = <<>> THEN t
    ELSE LET fa == final_answer(t)
         IN  IF fa # <<>> THEN fa
             ELSE LET fb == fallback_paragraph(split(t, NLNL))
                  IN  IF fb # <<>> THEN fb ELSE strip(t)

\* Which of the three exits produced filter_thinking_steps(t)
filter_exit(t) ==
    IF t = <<>> THEN "empty"
    ELSE IF final_answer(t) # <<>> THEN "section"
    ELSE IF fallback_paragraph(split(t, NLNL)) # <<>> THEN "paragraph"
    ELSE "original"

(***************************************************************************)
(* JSON values and events                                                  *)
(*                                                                         *)
(* A JSON value is [t, v]: t is its kind and v the characters of a str or  *)
(* the digits of a number. "absent" stands for a key the dict does not     *)
(* have. The dicts of an event are records with one field per key the code *)
(* looks at.                                                               *)
(***************************************************************************)

Absent == [t |-> "absent", v |-> <<>>]
Null == [t |-> "null", v |-> <<>>]
True == [t |-> "true", v |-> <<>>]
False == [t |-> "false", v |-> <<>>]
Str(s) == [t |-> "str", v |-> s]
Num(digits) == [t |-> "num", v |-> digits]
\* A dict whose keys are held in other fields of the record it belongs to
Dict == [t |-> "dict", v |-> <<>>]

\* k in d
has(x) == x.t # "absent"
\* d.get(k)
get(x) == IF has(x) THEN x ELSE Null
\* d.get(k, '')
get_or_empty(x) == IF has(x) THEN x ELSE Str(<<>>)
\* isinstance(x, str)
isstr(x) == x.t = "str"
\* bool(x)
truthy(x) ==
    CASE x.t = "str" -> x.v # <<>>
      [] x.t = "true" -> TRUE
      [] x.t = "num" -> x.v # <<"0">>
      [] OTHER -> FALSE
\* a or b
py_or(a, b) == IF truthy(a) THEN a ELSE b

S_None == <<"N", "o", "n", "e">>
S_True == <<"T", "r", "u", "e">>
S_False == <<"F", "a", "l", "s", "e">>
\* str(x)
py_str(x) ==
    CASE x.t = "null" -> S_None
      [] x.t = "true" -> S_True
      [] x.t = "false" -> S_False
      [] OTHER -> x.v

\* A list value: t is "list", or "absent", or "num" for a value that cannot be iterated
NoList == [t |-> "absent", items |-> <<>>]
List(items) == [t |-> "list", items |-> items]
NotIterable == [t |-> "num", items |-> <<>>]

\* metadata: None, or a dict with the keys the code reads
NoMetadata == [t |-> "none", is_semantic_sql |-> Absent, verified_query |-> Absent]
\* bool(metadata): a dict is true when it has a key
metadata_truthy(m) == m.t = "dict" /\ (has(m.is_semantic_sql) \/ has(m.verified_query))

\* The json dict of an entry of tool_result.content
NoJson == [t |-> "absent", sql |-> Absent, text |-> Absent, verified_query_used |-> Absent]
\* An entry of tool_result.content
EmptyContentItem == [isdict |-> TRUE, type |-> Absent, json |-> NoJson, text |-> Absent]

NoToolResult == [t |-> "absent", name |-> Absent, content |-> NoList]
\* tool_use: its input dict holds reference_vqrs, a list of dicts with a question
NoToolUse == [t |-> "absent", name |-> Absent, has_input |-> FALSE, reference_vqrs |-> NoList]

\* An entry of an event's content list
EmptyItem ==
    [isdict |-> TRUE, type |-> Absent, text |-> Absent, interpretation |-> Absent,
     query_interpretation |-> Absent, sql |-> Absent, query |-> Absent,
     logical_query |-> Absent, message |-> Absent, answer |-> Absent,
     response |-> Absent, output |-> Absent,
     tool_result |-> NoToolResult, tool_use |-> NoToolUse]

\* A decoded event; isdict is false for a JSON value that is no object;
\* message_interpretation is message["interpretation"] of a dict message
EmptyEvent ==
    [isdict |-> TRUE, role |-> Absent, metadata |-> NoMetadata, interpretation |-> Absent,
     query_interpretation |-> Absent, message |-> Absent,
     message_interpretation |-> Absent, content |-> NoList, sql |-> Absent,
     query |-> Absent, logical_query |-> Absent, physical_query |-> Absent,
     sql_query |-> Absent, verified_query |-> Absent,
     based_on_verified_query |-> Absent, error |-> Absent, text |-> Absent]

S_assistant == <<"a", "s", "s", "i", "s", "t", "a", "n", "t">>
S_text == <<"t", "e", "x", "t">>
S_tool_result == <<"t", "o", "o", "l", "_", "r", "e", "s", "u", "l", "t">>
S_tool_use == <<"t", "o", "o", "l", "_", "u", "s", "e">>
S_json == <<"j", "s", "o", "n">>
S_contract_analytics == <<"c", "o", "n", "t", "r", "a", "c", "t", "_", "a", "n", "a", "l", "y",
    "t", "i", "c", "s">>

\* The elements of a sequence
Range(s) == {s[i] : i \in 1..Len(s)}

(***************************************************************************)
(* call_cortex_agent: the pass over the events of the stream               *)
(***************************************************************************)

\* event_data.get('role') == 'assistant'
is_assistant(ev) == get(ev.role) = Str(S_assistant)

\* metadata after the event
next_metadata(ev, meta) ==
    IF is_assistant(ev) /\ ev.metadata.t # "none" THEN ev.metadata ELSE meta

\* The first entry of a content list that is a dict with an interpretation key
first_item_interpretation(items, cur) ==
    LET hits == {i \in 1..Len(items) : items[i].isdict /\ has(items[i].interpretation)}
    IN  IF hits = {} THEN cur ELSE items[MinOf(hits)].interpretation

\* interpretation after the event: probed only while it is not set
probe_interpretation(ev, cur) ==
    IF truthy(cur) THEN cur
    ELSE IF has(ev.interpretation) THEN ev.interpretation
    ELSE IF has(ev.query_interpretation) THEN ev.query_interpretation
    ELSE IF has(ev.message) /\ ev.message.t = "dict"
         THEN IF has(ev.message_interpretation) THEN ev.message_interpretation ELSE cur
    ELSE IF has(ev.content) THEN first_item_interpretation(ev.content.items, cur)
    ELSE cur

\* The interpretation probe iterates a content that cannot be iterated
probe_interpretation_raises(ev, cur) ==
    /\ ~truthy(cur)
    /\ ~has(ev.interpretation) /\ ~has(ev.query_interpretation)
    /\ ~(has(ev.message) /\ ev.message.t = "dict")
    /\ has(ev.content) /\ ev.content.t # "list"

\* found_sql of the event: None when no location holds one
probe_sql(ev) ==
    IF has(ev.sql) THEN ev.sql
    ELSE IF has(ev.query) /\ isstr(ev.query) THEN ev.query
    ELSE IF has(ev.logical_query) THEN ev.logical_query
    ELSE IF has(ev.physical_query) THEN ev.physical_query
    ELSE IF has(ev.sql_query) THEN ev.sql_query
    ELSE IF has(ev.content)
         THEN LET items == ev.content.items
                  hits == {i \in 1..Len(items) :
                              items[i].isdict /\ (has(items[i].sql) \/ has(items[i].query))}
              IN  IF hits = {} THEN Null
                  ELSE LET item == items[MinOf(hits)]
                       IN  IF has(item.sql) THEN item.sql ELSE item.query
    ELSE Null

\* The SQL probe iterates a content that cannot be iterated
probe_sql_raises(ev) ==
    /\ ~has(ev.sql) /\ ~(has(ev.query) /\ isstr(ev.query))
    /\ ~has(ev.logical_query) /\ ~has(ev.physical_query) /\ ~has(ev.sql_query)
    /\ has(ev.content) /\ ev.content.t # "list"

\* A variant of add_sql that appends without looking for an equal element
add_sql_no_dedup(queries, found_sql) ==
    IF truthy(found_sql) THEN Append(queries, found_sql) ELSE queries

\* if found_sql and found_sql not in sql_queries: sql_queries.append(found_sql)
add_sql(queries, found_sql) ==
    IF truthy(found_sql) /\ found_sql \notin Range(queries)
    THEN Append(queries, found_sql) ELSE queries

\* verified_query_info after the event; metadata is the metadata after the event
next_verified(ev, meta, cur) ==
    IF metadata_truthy(meta) /\ truthy(get(meta.is_semantic_sql)) THEN True
    ELSE IF has(ev.verified_query) \/ has(ev.based_on_verified_query)
         THEN py_or(get(ev.verified_query), get(ev.based_on_verified_query))
    ELSE cur

error_keywords ==
    { <<"e", "r", "r", "o", "r">>,
      <<"t", "i", "m", "e", "o", "u", "t">>,
      <<"f", "a", "i", "l", "e", "d">>,
      <<"c", "a", "n", "n", "o", "t">>,
      <<"e", "x", "c", "e", "e", "d">> }

\* The event has a str message with one of the keywords
is_keyword_error(ev) ==
    /\ has(ev.message) /\ isstr(ev.message)
    /\ \E keyword \in error_keywords : contains(lower(ev.message.v), keyword)

\* error_message after the event
next_error_message(ev, cur) ==
    IF has(ev.message) /\ isstr(ev.message)
    THEN IF is_keyword_error(ev) THEN ev.message ELSE cur
    ELSE IF has(ev.error) THEN Str(py_str(get_or_empty(ev.error)))
    ELSE cur

(***************************************************************************)
(* call_cortex_agent: the answer, after the stream has ended               *)
(***************************************************************************)

\* What the loops over content entries carry along; raises: an exception was raised
LoopState(text_parts, queries, verified, interp) ==
    [text_parts |-> text_parts, sql_queries |-> queries,
     verified_query_info |-> verified, interpretation |-> interp, raises |-> FALSE]

Raised(acc) == [acc EXCEPT !.raises = TRUE]

\* PRIORITY 1, the entries of a tool_result's content: SQL and verified flag of json entries
RECURSIVE priority1_tool_result(_, _)
priority1_tool_result(entries, acc) ==
    IF entries = <<>> THEN acc
    ELSE LET c == Head(entries)
             json_data == c.json
             acc1 == IF c.isdict /\ get(c.type) = Str(S_json)
                     THEN [acc EXCEPT
                             !.sql_queries =
                                 IF has(json_data.sql) THEN add_sql(@, json_data.sql) ELSE @,
                             !.verified_query_info =
                                 IF has(json_data.verified_query_used)
                                    /\ truthy(json_data.verified_query_used)
                                 THEN True ELSE @]
                     ELSE acc
         IN  priority1_tool_result(Tail(entries), acc1)

\* PRIORITY 1, the loop over final_response['content']
RECURSIVE priority1_items(_, _)
priority1_items(items, acc) ==
    IF items = <<>> \/ acc.raises THEN acc
    ELSE LET item == Head(items)
             text_value == get_or_empty(item.text)
             acc1 ==
                 IF item.isdict /\ get(item.type) = Str(S_text)
                 THEN IF ~isstr(text_value) THEN Raised(acc)
                      ELSE IF strip(text_value.v) # <<>>
                           THEN [acc EXCEPT !.text_parts = Append(@, strip(text_value.v))]
                      ELSE acc
                 ELSE IF item.isdict /\ get(item.type) = Str(S_tool_result)
                 THEN IF has(item.tool_result.content) /\ item.tool_result.content.t = "list"
                      THEN priority1_tool_result(item.tool_result.content.items, acc)
                      ELSE acc
                 ELSE acc
         IN  priority1_items(Tail(items), acc1)

\* A variant of priority1_answer that takes the first text entry only
priority1_answer_first_only(text_parts) ==
    IF text_parts # <<>> THEN Str(text_parts[1]) ELSE Null

\* if text_parts: answer_text = '\n'.join(text_parts)
priority1_answer(text_parts) ==
    IF text_parts # <<>> THEN Str(join(NL, text_parts)) ELSE Null

\* PRIORITY 1: [raises, answer_text, sql_queries, verified_query_info] after the block
priority1(fr, queries, verified) ==
    IF has(fr.content) /\ fr.content.t = "list"
    THEN LET acc == priority1_items(fr.content.items, LoopState(<<>>, queries, verified, Null))
         IN  [raises |-> acc.raises, answer_text |-> priority1_answer(acc.text_parts),
              sql_queries |-> acc.sql_queries,
              verified_query_info |-> acc.verified_query_info]
    ELSE IF has(fr.text)
    THEN [raises |-> ~isstr(fr.text),
          answer_text |-> IF isstr(fr.text) THEN Str(strip(fr.text.v)) ELSE Null,
          sql_queries |-> queries, verified_query_info |-> verified]
    ELSE [raises |-> FALSE, answer_text |-> Null,
          sql_queries |-> queries, verified_query_info |-> verified]

\* filter_thinking_steps on any value: a false value is returned as it is, and a
\* true value that is no str has no split()
filter_value(x) ==
    IF ~truthy(x) THEN [raises |-> FALSE, value |-> x]
    ELSE IF isstr(x) THEN [raises |-> FALSE, value |-> Str(filter_thinking_steps(x.v))]
    ELSE [raises |-> TRUE, value |-> Null]

UsingVerifiedQuery == <<"U", "s", "i", "n", "g", " ", "v", "e", "r", "i", "f", "i", "e", "d",
    " ", "q", "u", "e", "r", "y", ":", " ">>

\* PRIORITY 3, the entries of a tool_result's content
RECURSIVE priority3_tool_result(_, _, _)
priority3_tool_result(entries, tool_name, acc) ==
    IF entries = <<>> \/ acc.raises THEN acc
    ELSE LET c == Head(entries)
             json_data == c.json
             json_text == get_or_empty(json_data.text)
             with_sql == [acc EXCEPT !.sql_queries =
                             IF has(json_data.sql) THEN add_sql(@, json_data.sql) ELSE @]
             with_interp ==
                 IF ~has(json_data.text) THEN with_sql
                 ELSE IF ~isstr(json_text) THEN Raised(with_sql)
                 ELSE IF strip(json_text.v) = <<>> THEN with_sql
                 ELSE IF tool_name = Str(S_contract_analytics) \/ ~truthy(acc.interpretation)
                      THEN [with_sql EXCEPT !.interpretation = Str(strip(json_text.v))]
                 ELSE with_sql
             with_verified ==
                 IF has(json_data.verified_query_used) /\ truthy(json_data.verified_query_used)
                 THEN [with_interp EXCEPT !.verified_query_info = True]
                 ELSE with_interp
             text_value == get_or_empty(c.text)
             acc1 ==
                 IF ~c.isdict THEN acc
                 ELSE IF get(c.type) = Str(S_json) /\ c.json.t # "absent" THEN with_verified
                 ELSE IF get(c.type) = Str(S_text)
                      THEN IF ~isstr(text_value) THEN Raised(acc)
                           ELSE IF strip(text_value.v) # <<>>
                                THEN [acc EXCEPT !.text_parts = Append(@, strip(text_value.v))]
                           ELSE acc
                 ELSE acc
         IN  priority3_tool_result(Tail(entries), tool_name, acc1)

\* PRIORITY 3, a tool_use entry: the question of the first verified query reference
priority3_tool_use(tool_use, acc) ==
    IF /\ get(tool_use.name) = Str(S_contract_analytics) /\ tool_use.has_input
       /\ has(tool_use.reference_vqrs) /\ tool_use.reference_vqrs.t = "list"
       /\ tool_use.reference_vqrs.items # <<>> /\ ~truthy(acc.interpretation)
       /\ has(tool_use.reference_vqrs.items[1].question)
    THEN [acc EXCEPT !.interpretation =
             Str(UsingVerifiedQuery \o py_str(tool_use.reference_vqrs.items[1].question))]
    ELSE acc

\* PRIORITY 3, the loop over final_response['content']
RECURSIVE priority3_items(_, _)
priority3_items(items, acc) ==
    IF items = <<>> \/ acc.raises THEN acc
    ELSE LET item == Head(items)
             acc1 ==
                 IF ~item.isdict THEN acc
                 ELSE IF get(item.type) = Str(S_text)
                      THEN IF isstr(get_or_empty(item.text))
                           THEN [acc EXCEPT !.text_parts = Append(@, get_or_empty(item.text).v)]
                           ELSE Raised(acc)
                 ELSE IF get(item.type) = Str(S_tool_result)
                      THEN IF has(item.tool_result.content) /\ item.tool_result.content.t = "list"
                           THEN priority3_tool_result(item.tool_result.content.items,
                                                      get_or_empty(item.tool_result.name), acc)
                           ELSE acc
                 ELSE IF get(item.type) = Str(S_tool_use)
                      THEN priority3_tool_use(item.tool_use, acc)
                 ELSE acc
         IN  priority3_items(Tail(items), acc1)

\* PRIORITY 3: [raises, answer_text, sql_queries, verified_query_info, interpretation]
priority3(fr, queries, verified, interp) ==
    IF has(fr.content) /\ fr.content.t = "list"
    THEN LET acc == priority3_items(fr.content.items, LoopState(<<>>, queries, verified, interp))
         IN  [raises |-> acc.raises,
              answer_text |-> IF acc.text_parts # <<>>
                              THEN Str(filter_thinking_steps(join(NL, acc.text_parts)))
                              ELSE Null,
              sql_queries |-> acc.sql_queries,
              verified_query_info |-> acc.verified_query_info,
              interpretation |-> acc.interpretation]
    ELSE LET r == filter_value(get_or_empty(fr.text))
         IN  [raises |-> has(fr.text) /\ r.raises,
              answer_text |-> IF has(fr.text) THEN r.value ELSE Null,
              sql_queries |-> queries, verified_query_info |-> verified,
              interpretation |-> interp]

\* The final fallback over all_events: the first event with a text key ends the
\* search, an event whose content list has a text entry ends it if that text,
\* filtered, is not empty
RECURSIVE final_fallback(_, _)
final_fallback(events, answer) ==
    IF events = <<>> THEN [raises |-> FALSE, value |-> answer]
    ELSE LET event == Head(events)
             items == event.content.items
             hits == {i \in 1..Len(items) :
                         items[i].isdict /\ get(items[i].type) = Str(S_text)}
         IN  IF has(event.text) THEN filter_value(get_or_empty(event.text))
             ELSE IF has(event.content) /\ event.content.t = "list" /\ hits # {}
                  THEN LET r == filter_value(get_or_empty(items[MinOf(hits)].text))
                       IN  IF r.raises \/ truthy(r.value) THEN r
                           ELSE final_fallback(Tail(events), r.value)
             ELSE final_fallback(Tail(events), answer)

\* The fields the last extraction tries in an entry of the first event's content
aggressive_fields(item) == <<item.text, item.message, item.answer, item.response, item.output>>

\* potential_text is a str that is not blank
is_text(x) == isstr(x) /\ strip(x.v) # <<>>

\* The last extraction, from the first event: the first usable field of the first
\* entry that has one; None if there is none
aggressive_text(events) ==
    IF events = <<>> THEN Null
    ELSE LET sample_event == events[1]
             items == sample_event.content.items
             usable(item) == {k \in 1..5 : is_text(aggressive_fields(item)[k])}
             hits == {i \in 1..Len(items) : items[i].isdict /\ usable(items[i]) # {}}
         IN  IF has(sample_event.content) /\ sample_event.content.t = "list" /\ hits # {}
             THEN aggressive_fields(items[MinOf(hits)])[MinOf(usable(items[MinOf(hits)]))]
             ELSE Null

\* The last look for an interpretation over all_events
RECURSIVE interpretation_rescan(_, _)
interpretation_rescan(events, interp) ==
    IF events = <<>> THEN [raises |-> FALSE, value |-> interp]
    ELSE LET event == Head(events)
             items == event.content.items
             hits == {i \in 1..Len(items) :
                         items[i].isdict /\ (has(items[i].interpretation)
                                                \/ has(items[i].query_interpretation))}
             found == IF hits = {} THEN interp
                      ELSE LET item == items[MinOf(hits)]
                           IN  IF has(item.interpretation) THEN item.interpretation
                               ELSE item.query_interpretation
         IN  IF has(event.interpretation) THEN [raises |-> FALSE, value |-> event.interpretation]
             ELSE IF has(event.query_interpretation)
                  THEN [raises |-> FALSE, value |-> event.query_interpretation]
             ELSE IF has(event.content)
                  THEN IF event.content.t # "list" THEN [raises |-> TRUE, value |-> interp]
                       ELSE IF truthy(found) THEN [raises |-> FALSE, value |-> found]
                       ELSE interpretation_rescan(Tail(events), found)
             ELSE interpretation_rescan(Tail(events), interp)

\* The last look for SQL over all_events, made when sql_queries is empty: the
\* first event that yields a statement ends it
RECURSIVE sql_rescan(_)
sql_rescan(events) ==
    IF events = <<>> THEN [raises |-> FALSE, value |-> <<>>]
    ELSE LET event == Head(events)
             items == event.content.items
             hits == {i \in 1..Len(items) :
                         items[i].isdict /\ (has(items[i].sql) \/ has(items[i].logical_query)
                                                \/ has(items[i].query))}
             in_content ==
                 IF hits = {} THEN Null
                 ELSE LET item == items[MinOf(hits)]
                      IN  IF has(item.sql) THEN item.sql
                          ELSE IF has(item.logical_query) THEN item.logical_query
                          ELSE item.query
             direct == has(event.sql) \/ has(event.logical_query) \/ has(event.sql_query)
             found_sql ==
                 IF has(event.sql) THEN event.sql
                 ELSE IF has(event.logical_query) THEN event.logical_query
                 ELSE IF has(event.sql_query) THEN event.sql_query
                 ELSE IF has(event.content) THEN in_content
                 ELSE Null
         IN  IF ~direct /\ has(event.content) /\ event.content.t # "list"
             THEN [raises |-> TRUE, value |-> <<>>]
             ELSE IF truthy(found_sql) THEN [raises |-> FALSE, value |-> <<found_sql>>]
             ELSE sql_rescan(Tail(events))

\* A variant of is_verified without the inference from the SQL
is_verified_without_sql_inference(verified, meta, answer, queries) ==
    \/ truthy(verified)
    \/ /\ metadata_truthy(meta)
       /\ truthy(get(meta.is_semantic_sql)) \/ truthy(get(meta.verified_query))
    \/ truthy(answer) /\ queries = <<>>

\* A variant of is_verified without the inference from the answer
is_verified_without_answer_inference(verified, meta, answer, queries) ==
    \/ truthy(verified)
    \/ /\ metadata_truthy(meta)
       /\ truthy(get(meta.is_semantic_sql)) \/ truthy(get(meta.verified_query))
    \/ queries # <<>>

\* is_verified when response_data is built
is_verified(verified, meta, answer, queries) ==
    \/ truthy(verified)
    \/ /\ metadata_truthy(meta)
       /\ truthy(get(meta.is_semantic_sql)) \/ truthy(get(meta.verified_query))
    \/ truthy(answer) /\ queries = <<>>
    \/ queries # <<>>

(***************************************************************************)
(* call_cortex_agent: what it returns                                      *)
(***************************************************************************)

\* The warning sign and the check mark that open the answers, one element each
WarningSign == "[warning]"
CheckMark == "[check]"

ErrorSuffix == <<"\n", "\n", "P", "l", "e", "a", "s", "e", " ", "t", "r", "y", " ", "a", " ",
    "s", "i", "m", "p", "l", "e", "r", " ", "q", "u", "e", "s", "t", "i", "o", "n", " ", "o",
    "r", " ", "c", "o", "n", "t", "a", "c", "t", " ", "t", "h", "e", " ", "d", "a", "t", "a",
    " ", "a", "n", "a", "l", "y", "s", "t", " ", "i", "f", " ", "t", "h", "e", " ", "i", "s",
    "s", "u", "e", " ", "p", "e", "r", "s", "i", "s", "t", "s", ".">>
UnparsedText == <<CheckMark, " ", "R", "e", "c", "e", "i", "v", "e", "d", " ", "r", "e", "s",
    "p", "o", "n",
    "s", "e", " ", "f", "r", "o", "m", " ", "a", "g", "e", "n", "t", ",", " ", "b", "u", "t",
    " ", "c", "o", "u", "l", "d", "n", "'", "t", " ", "p", "a", "r", "s", "e", " ", "t", "h",
    "e", " ", "f", "o", "r", "m", "a", "t", ".", " ", "T", "h", "e", " ", "a", "g", "e", "n",
    "t", " ", "i", "s", " ", "w", "o", "r", "k", "i", "n", "g", "!", " ", "P", "l", "e", "a",
    "s", "e", " ", "t", "r", "y", " ", "r", "e", "p", "h", "r", "a", "s", "i", "n", "g", " ",
    "y", "o", "u", "r", " ", "q", "u", "e", "s", "t", "i", "o", "n", ".">>

\* What call_cortex_agent returns: a dict (kind names the return statement:
\* "error", "unparsed" or "answer") or, for kind "exception", the str built by
\* except Exception, whose text is not modelled
ResultDict(kind, answer, interp, queries, verified, meta) ==
    [kind |-> kind, answer |-> answer, interpretation |-> interp,
     sql_query |-> IF queries = <<>> THEN Null ELSE queries[1],
     sql_queries |-> queries, verified |-> verified, metadata |-> meta]

NoResult == ResultDict("none", Null, Null, <<>>, FALSE, NoMetadata)
\* An exception answered with a dict instead of the str
ExceptionResult_as_dict == ResultDict("unparsed", Null, Null, <<>>, FALSE, NoMetadata)
\* except Exception: the str "Error calling Cortex Agent: " and the exception's text
ExceptionResult == ResultDict("exception", Null, Null, <<>>, FALSE, NoMetadata)
\* The dict returned when error_message is set
ErrorResult(message, meta) ==
    ResultDict("error", Str(<<WarningSign, " ">> \o message.v \o ErrorSuffix),
               Null, <<>>, FALSE, meta)
\* The dict returned when no answer text was found
UnparsedResult == ResultDict("unparsed", Str(UnparsedText), Null, <<>>, FALSE, NoMetadata)

(***************************************************************************)
(* call_cortex_agent: the request, and the strings returned when it fails  *)
(***************************************************************************)

\* The cross mark and the stopwatch that open the strings, one element each
CrossMark == "[cross]"
Stopwatch == "[stopwatch]"

UnconfiguredText == <<CrossMark, " ", "E", "r", "r", "o", "r", ":", " ", "A", "G", "E", "N", "T",
    "_", "E", "N", "D", "P", "O", "I", "N", "T", " ", "o", "r", " ", "P", "A", "T", " ", "n",
    "o", "t", " ", "c", "o", "n", "f", "i", "g", "u", "r", "e", "d", ".", " ", "P", "l", "e",
    "a", "s", "e", " ", "c", "h", "e", "c", "k", " ", "y", "o", "u", "r", " ", ".", "e", "n",
    "v", " ", "f", "i", "l", "e", ".">>

TimeoutText == <<Stopwatch, " ", "R", "e", "q", "u", "e", "s", "t", " ", "t", "i", "m", "e", "d",
    " ", "o", "u", "t", ".", " ", "T", "h", "e", " ", "q", "u", "e", "r", "y", " ", "m", "a",
    "y", " ", "b", "e", " ", "t", "a", "k", "i", "n", "g", " ", "t", "o", "o", " ", "l", "o",
    "n", "g", ".", " ", "T", "r", "y", " ", "a", " ", "s", "i", "m", "p", "l", "e", "r", " ",
    "q", "u", "e", "s", "t", "i", "o", "n", ".">>

AuthText == <<CrossMark, " ", "A", "u", "t", "h", "e", "n", "t", "i", "c", "a", "t", "i", "o", "n",
    " ", "f", "a", "i", "l", "e", "d", ".", " ", "P", "l", "e", "a", "s", "e", " ", "c", "h",
    "e", "c", "k", " ", "y", "o", "u", "r", " ", "P", "A", "T", " ", "(", "P", "r", "o", "g",
    "r", "a", "m", "m", "a", "t", "i", "c", " ", "A", "c", "c", "e", "s", "s", " ", "T", "o",
    "k", "e", "n", ")", ".">>

NotFoundText == <<CrossMark, " ", "A", "g", "e", "n", "t", " ", "e", "n", "d", "p", "o", "i", "n",
    "t", " ", "n", "o", "t", " ", "f", "o", "u", "n", "d", ".", " ", "P", "l", "e", "a", "s",
    "e", " ", "v", "e", "r", "i", "f", "y", " ", "A", "G", "E", "N", "T", "_", "E", "N", "D",
    "P", "O", "I", "N", "T", " ", "i", "n", " ", "y", "o", "u", "r", " ", ".", "e", "n", "v",
    " ", "f", "i", "l", "e", ".">>

ErrorPrefix == <<CrossMark, " ", "E", "r", "r", "o", "r", " ">>

NoErrorDetails == <<"N", "o", " ", "e", "r", "r", "o", "r", " ", "d", "e", "t", "a", "i", "l",
    "s">>

InterpretationPrefix == <<"I", "n", "t", "e", "r", "p", "r", "e", "t", "a", "t", "i", "o", "n",
    ":", " ">>

BodyDenied == <<"d", "e", "n", "i", "e", "d">>

QuestionHowMany == <<"h", "o", "w", " ", "m", "a", "n", "y", "?">>

\* The number of characters of the response body an HTTP error reports
ErrorTextCap == 500

\* A str returned in place of a dict; kind names the except clause it comes from
StringResult(kind, chars) == ResultDict(kind, Str(chars), Null, <<>>, FALSE, NoMetadata)

\* isinstance(response_data, str)
is_string_result(r) ==
    r.kind \in {"exception", "unconfigured", "timeout", "auth", "not_found", "http_error"}

\* if not AGENT_ENDPOINT or not PAT
UnconfiguredResult == StringResult("unconfigured", UnconfiguredText)
\* except requests.exceptions.Timeout
TimeoutResult == StringResult("timeout", TimeoutText)

\* s[:k]
prefix(s, k) == SubSeq(s, 1, IF Len(s) < k THEN Len(s) ELSE k)

\* A variant of HTTPErrorResult that reports the whole body
HTTPErrorResult_whole_body(status_code, body) ==
    IF status_code = <<"4", "0", "1">> THEN StringResult("auth", AuthText)
    ELSE IF status_code = <<"4", "0", "4">> THEN StringResult("not_found", NotFoundText)
    ELSE LET error_text == IF body # <<>> THEN body ELSE NoErrorDetails
         IN  StringResult("http_error", ErrorPrefix \o status_code \o <<":", " ">> \o error_text)

\* except requests.exceptions.HTTPError: status_code is the digits of the status
HTTPErrorResult(status_code, body) ==
    IF status_code = <<"4", "0", "1">> THEN StringResult("auth", AuthText)
    ELSE IF status_code = <<"4", "0", "4">> THEN StringResult("not_found", NotFoundText)
    ELSE LET error_text == IF body # <<>> THEN prefix(body, ErrorTextCap) ELSE NoErrorDetails
         IN  StringResult("http_error", ErrorPrefix \o status_code \o <<":", " ">> \o error_text)

\* How the exchange with the endpoint went: "unsent" before the call, "unconfigured"
\* when it is not made, "timeout" and "refused" when requests.post raises, "status"
\* when raise_for_status raises, "ok" while a 2xx response streams, "dropped" when
\* the stream breaks
Exchange(outcome, status_code, body) ==
    [outcome |-> outcome, status_code |-> status_code, text |-> body]
Unsent == Exchange("unsent", <<>>, <<>>)

(***************************************************************************)
(* format_slack_response                                                   *)
(***************************************************************************)

NotFormatted == [blocks |-> <<>>, has_blocks |-> FALSE, text |-> Null]

\* format_slack_response: blocks names the blocks of the message, in order;
\* has_blocks is false when blocks is None
format_slack_response(response_data, question) ==
    IF is_string_result(response_data)
    THEN [blocks |-> <<>>, has_blocks |-> FALSE, text |-> response_data.answer]
    ELSE LET has_sql == response_data.sql_queries # <<>> \/ truthy(response_data.sql_query)
             interp == response_data.interpretation
         IN  [blocks |->
                  (IF question # <<>> THEN <<"question", "divider">> ELSE <<>>)
                      \o <<"completed", "divider", "answer">>
                      \o (IF has_sql \/ truthy(interp) THEN <<"actions">> ELSE <<>>),
              has_blocks |-> TRUE,
              text |-> IF truthy(interp)
                       THEN Str(InterpretationPrefix \o py_str(interp) \o NLNL
                                \o response_data.answer.v)
                       ELSE response_data.answer]

(***************************************************************************)
(* truncate_button_value                                                   *)
(*                                                                         *)
(* Only lengths matter to the budget, so here a str is a sequence of runs  *)
(* [n, w]: n characters that json.dumps (ensure_ascii) writes with w       *)
(* characters each: 1 for plain ASCII, 2 for a quote, backslash or         *)
(* newline, 6 for a BMP character outside ASCII (\uXXXX).                   *)
(***************************************************************************)

\* A str of n characters of serialised width w
Run(n, w) == IF n = 0 THEN <<>> ELSE <<[n |-> n, w |-> w]>>

\* len(s)
RECURSIVE run_len(_)
run_len(s) == IF s = <<>> THEN 0 ELSE Head(s).n + run_len(Tail(s))

\* s[:k]
RECURSIVE run_prefix(_, _)
run_prefix(s, k) ==
    IF s = <<>> \/ k <= 0 THEN <<>>
    ELSE IF Head(s).n >= k THEN <<[n |-> k, w |-> Head(s).w]>>
    ELSE <<Head(s)>> \o run_prefix(Tail(s), k - Head(s).n)

\* s + t
run_cat(s, t) ==
    IF s = <<>> THEN t
    ELSE IF t = <<>> THEN s
    ELSE IF s[Len(s)].w = t[1].w
         THEN SubSeq(s, 1, Len(s) - 1)
                 \o <<[n |-> s[Len(s)].n + t[1].n, w |-> t[1].w]>> \o Tail(t)
    ELSE s \o t

\* "..."
Ellipsis == Run(3, 1)

\* The characters json.dumps writes for the str s, without the two quotes
RECURSIVE run_json_len(_)
run_json_len(s) == IF s = <<>> THEN 0 ELSE Head(s).n * Head(s).w + run_json_len(Tail(s))

\* An optional str: None or a str
NoneStr == [t |-> "none", s |-> <<>>]
SomeStr(s) == [t |-> "str", s |-> s]

\* Python truthiness of an optional str
str_truthy(x) == x.t = "str" /\ x.s # <<>>

\* len(json.dumps(x)) of an optional str: null, or the quoted str
opt_json_len(x) == IF x.t = "none" THEN 4 ELSE 2 + run_json_len(x.s)

\* len(json.dumps(list)) of a list of optional strs: "[", the items joined by ", ", "]"
RECURSIVE items_json_len(_)
items_json_len(l) == IF l = <<>> THEN 0 ELSE opt_json_len(Head(l)) + items_json_len(Tail(l))
list_json_len(l) == 2 + items_json_len(l) + (IF l = <<>> THEN 0 ELSE 2 * (Len(l) - 1))

\* The characters of json.dumps(minimal_data) outside the nine values: braces, keys,
\* ": " and ", "
SkeletonLen == 141

\* len(json.dumps(minimal_data)): verified is true or false, step_count is 0,
\* processing_time is null or a number, action is "show" or "hide"
json_len(d) ==
    SkeletonLen + opt_json_len(d.answer) + opt_json_len(d.sql_query)
        + list_json_len(d.sql_queries) + opt_json_len(d.interpretation)
        + (IF d.verified THEN 4 ELSE 5) + 1 + d.processing_time_len
        + opt_json_len(d.question) + 6

\* max_length
max_length == 2000
\* The caps of answer, and of interpretation and question
AnswerCap == 300
FieldCap == 200
\* The least number of characters kept of an SQL statement
MinSqlKeep == 200
\* Buffer for SQL array formatting
SqlBuffer == 100

Max(a, b) == IF a >= b THEN a ELSE b

\* data.get(k, "")[:cap] if data.get(k) else ""
capped(x, cap) == IF str_truthy(x) THEN SomeStr(run_prefix(x.s, cap)) ELSE SomeStr(<<>>)

\* minimal_data before any SQL is put in
base_data(d) ==
    [answer |-> capped(d.answer, AnswerCap),
     sql_query |-> NoneStr,
     sql_queries |-> <<>>,
     interpretation |-> capped(d.interpretation, FieldCap),
     verified |-> d.verified,
     processing_time_len |-> d.processing_time_len,
     question |-> capped(d.question, FieldCap),
     action |-> d.action]

\* available_space
available_space(d) == max_length - json_len(base_data(d)) - SqlBuffer

\* q[:limit] + "..." if q is longer than limit, else q
truncate_sql(q, limit) ==
    IF str_truthy(q) /\ run_len(q.s) > limit
    THEN SomeStr(run_cat(run_prefix(q.s, limit), Ellipsis))
    ELSE q

\* A variant of max_sql_per_query without the floor of 200 characters
max_sql_per_query_no_floor(d) == Max(0, available_space(d) \div Max(1, Len(d.sql_queries)))

\* max_sql_per_query
max_sql_per_query(d) == Max(MinSqlKeep, available_space(d) \div Max(1, Len(d.sql_queries)))

\* minimal_data after the SQL has been put in, before the final check
with_sql(d) ==
    IF d.sql_queries # <<>>
    THEN LET truncated_queries ==
                 [i \in 1..Len(d.sql_queries) |->
                     truncate_sql(d.sql_queries[i], max_sql_per_query(d))]
         IN  [base_data(d) EXCEPT !.sql_queries = truncated_queries,
                                  !.sql_query = truncated_queries[1]]
    ELSE IF str_truthy(d.sql_query)
    THEN LET q == truncate_sql(d.sql_query, Max(MinSqlKeep, available_space(d)))
         IN  [base_data(d) EXCEPT !.sql_query = q, !.sql_queries = <<q>>]
    ELSE base_data(d)

\* truncate_button_value: the payload whose serialisation is returned
truncate_button_value(d) ==
    IF json_len(with_sql(d)) > max_length THEN base_data(d) ELSE with_sql(d)

(***************************************************************************)
(* format_slack_response and handle_show_query_details: the message with   *)
(* its details button                                                      *)
(*                                                                         *)
(* The strs are the runs of truncate_button_value, and they stand for      *)
(* characters other than the asterisk, which answer.replace("**", "*")     *)
(* leaves as they are. step_count is 0, as in the serialised payload. The  *)
(* button's value is the payload truncate_button_value serialises: the     *)
(* handler reads back with json.loads what json.dumps wrote.               *)
(***************************************************************************)
DisplayCap == 2800

\* "...\n-- (SQL truncated for display)"
DisplaySuffix == <<[n |-> 3, w |-> 1], [n |-> 1, w |-> 2], [n |-> 30, w |-> 1]>>

\* sql_queries if sql_queries else ([sql_query] if sql_query else [])
queries_or_query(queries, query) ==
    IF queries # <<>> THEN queries
    ELSE IF str_truthy(query) THEN <<query>>
    ELSE <<>>

\* summary_text: "Finished processing", the time if there is one, and what the
\* answer includes
summary_text(verified, query_count, processing_time_len) ==
    [verified |-> verified, query_count |-> query_count,
     processing_time_len |-> processing_time_len]

\* The text of the answer section in the handler:
\* answer.replace("**", "*") if answer else "No answer available"
NoAnswerAvailable == [t |-> "no_answer", s |-> <<>>]
answer_or_none(answer) == IF str_truthy(answer) THEN answer ELSE NoAnswerAvailable

\* The blocks of a message: the question section if there is a question, the
\* summary, the answer, the details if they are shown, and whether a button ends it
Blocks(view, question, summary, answer, details, has_button) ==
    [view |-> view, question |-> question, summary |-> summary, answer |-> answer,
     details |-> details, has_button |-> has_button]

NoBlocks ==
    Blocks("none", NoneStr, summary_text(FALSE, 0, 4), NoneStr, <<>>, FALSE)

\* The dict handed to truncate_button_value for the button of a message
button_data(src, action) ==
    [answer |-> src.answer, sql_query |-> src.sql_query,
     sql_queries |-> queries_or_query(src.sql_queries, src.sql_query),
     interpretation |-> src.interpretation, verified |-> src.verified,
     processing_time_len |-> src.processing_time_len, question |-> src.question,
     action |-> action]

\* format_slack_response for a dict: the count of SQL statements is 1 for a
\* verified answer without any
format_blocks(d) ==
    LET queries == queries_or_query(d.sql_queries, d.sql_query)
        query_count == IF queries # <<>> THEN Len(queries)
                       ELSE IF d.verified THEN 1 ELSE 0
    IN  Blocks("answer", d.question,
               summary_text(d.verified, query_count, d.processing_time_len),
               d.answer, <<>>,
               queries # <<>> \/ str_truthy(d.interpretation))

\* value_json of format_slack_response
format_button(d) == truncate_button_value(button_data(d, "show"))

\* displayed_sql
displayed_sql(query) ==
    IF run_len(query.s) > DisplayCap
    THEN SomeStr(run_prefix(query.s, DisplayCap) \o DisplaySuffix)
    ELSE query

\* The action the rebuilt button carries
next_action(action) == IF action = "hide" THEN "show" ELSE "hide"

\* handle_show_query_details, the blocks it puts in place of the message
details_blocks(stored_data) ==
    LET queries == queries_or_query(stored_data.sql_queries, stored_data.sql_query)
        summary == summary_text(stored_data.verified, Len(queries),
                                stored_data.processing_time_len)
    IN  IF stored_data.action = "hide"
        THEN Blocks("answer", stored_data.question, summary,
                    answer_or_none(stored_data.answer), <<>>, TRUE)
        ELSE Blocks("details", stored_data.question, summary,
                    answer_or_none(stored_data.answer),
                    [i \in 1..Len(queries) |-> displayed_sql(queries[i])], TRUE)

\* A rebuilt button that loses the processing time
details_button_without_time(stored_data) ==
    truncate_button_value(
        button_data([stored_data EXCEPT !.processing_time_len = 4],
                    next_action(stored_data.action)))

\* handle_show_query_details, the value of the button it rebuilds
details_button(stored_data) ==
    truncate_button_value(button_data(stored_data, next_action(stored_data.action)))

(***************************************************************************)
(* Texts for the filter                                                    *)
(***************************************************************************)

\* "Let me check the data first, ok." (32 characters)
TokThinking == <<"L", "e", "t", " ", "m", "e", " ", "c", "h", "e", "c", "k", " ", "t", "h",
    "e", " ", "d", "a", "t", "a", " ", "f", "i", "r", "s", "t", ",", " ", "o", "k", ".">>
\* "There are 42 contracts in total." (32 characters)
TokAnswer == <<"T", "h", "e", "r", "e", " ", "a", "r", "e", " ", "4", "2", " ", "c", "o", "n",
    "t", "r", "a", "c", "t", "s", " ", "i", "n", " ", "t", "o", "t", "a", "l", ".">>
\* "short line" (10 characters)
TokShort == <<"s", "h", "o", "r", "t", " ", "l", "i", "n", "e">>
\* "maybe forty-two contracts exist here" (36 characters)
TokPlain == <<"m", "a", "y", "b", "e", " ", "f", "o", "r", "t", "y", "-", "t", "w", "o", " ",
    "c", "o", "n", "t", "r", "a", "c", "t", "s", " ", "e", "x", "i", "s", "t", " ", "h", "e",
    "r", "e">>
\* "I counted all of the active contracts across every region twice" (63 characters)
TokMeta == <<"I", " ", "c", "o", "u", "n", "t", "e", "d", " ", "a", "l", "l", " ", "o", "f",
    " ", "t", "h", "e", " ", "a", "c", "t", "i", "v", "e", " ", "c", "o", "n", "t", "r", "a",
    "c", "t", "s", " ", "a", "c", "r", "o", "s", "s", " ", "e", "v", "e", "r", "y", " ", "r",
    "e", "g", "i", "o", "n", " ", "t", "w", "i", "c", "e">>

\* "  There are 42 contracts in total. ": the answer with blanks around it
TokPadded == <<" ", " ">> \o TokAnswer \o <<" ">>

\* The lines a text is built from; the empty line makes a paragraph break
TextLines == {<<>>, TokThinking, TokAnswer, TokPadded, TokShort, TokPlain, TokMeta}

\* The largest number of lines in a text
MaxTextLines == 4

(***************************************************************************)
(* Inputs of truncate_button_value                                         *)
(***************************************************************************)

\* answer: missing, 120 and 10000 plain characters, 300 non-ASCII characters
AnswerPool ==
    {NoneStr, SomeStr(Run(120, 1)), SomeStr(Run(10000, 1)), SomeStr(Run(400, 1)),
     SomeStr(Run(300, 6))}

\* interpretation: missing, short, long, 200 non-ASCII characters
InterpretationPool ==
    {NoneStr, SomeStr(Run(50, 1)), SomeStr(Run(1000, 1)), SomeStr(Run(200, 6))}

\* question: short, and 250 characters that are escaped in JSON
QuestionPool == {SomeStr(Run(40, 1)), SomeStr(Run(250, 2))}

\* SQL statements: short, just over the floor, very long, long with escaped characters
SqlPool ==
    {SomeStr(Run(8, 1)), SomeStr(Run(250, 1)), SomeStr(Run(5000, 1)), SomeStr(Run(600, 2))}

\* The largest number of SQL statements in data
MaxQueries == 3

SqlLists == UNION {[1..n -> SqlPool] : n \in 0..MaxQueries}

\* The dicts truncate_button_value is called with
DataPool ==
    {[answer |-> a, sql_query |-> q, sql_queries |-> l, interpretation |-> i,
      verified |-> v, processing_time_len |-> t, question |-> qu, action |-> "show"] :
        a \in AnswerPool, q \in SqlPool \cup {NoneStr}, l \in SqlLists,
        i \in InterpretationPool, v \in BOOLEAN, t \in {4, 18}, qu \in QuestionPool}

\* No dict: the value of data and button_value outside truncate_button_value
NoData ==
    [answer |-> NoneStr, sql_query |-> NoneStr, sql_queries |-> <<>>,
     interpretation |-> NoneStr, verified |-> FALSE, processing_time_len |-> 4,
     question |-> NoneStr, action |-> "none"]

(***************************************************************************)
(* The response lines of the agent                                         *)
(***************************************************************************)

SqlOne == <<"S", "E", "L", "E", "C", "T", " ", "1">>
SqlTwo == <<"S", "E", "L", "E", "C", "T", " ", "2">>
MsgTimeout == <<"R", "e", "q", "u", "e", "s", "t", " ", "T", "i", "m", "e", "o", "u", "t">>
MsgWorking == <<"w", "o", "r", "k", "i", "n", "g">>
MsgFailed == <<"Q", "u", "e", "r", "y", " ", "f", "a", "i", "l", "e", "d">>
ErrBoom == <<"b", "o", "o", "m">>
TxtResult == <<" ", "R", "e", "s", "u", "l", "t", ":", " ", "1", " ">>
TxtBlank == <<" ", " ">>
TxtTotal == <<"T", "o", "t", "a", "l", ":", " ", "4", "2">>
InterpOne == <<"i", "n", "t", "e", "r", "p", " ", "o", "n", "e">>
InterpTwo == <<"i", "n", "t", "e", "r", "p", " ", "t", "w", "o">>

\* {"type": "text", "text": s}
TextItem(s) == [EmptyItem EXCEPT !.type = Str(S_text), !.text = Str(s)]

\* {"sql": "SELECT 1"}
evSql == [EmptyEvent EXCEPT !.sql = Str(SqlOne)]

\* {"role": "assistant", "content": [text " Result: 1 ", text "  ", text "Total: 42"]}
evAnswer ==
    [EmptyEvent EXCEPT !.role = Str(S_assistant),
                       !.content = List(<<TextItem(TxtResult), TextItem(TxtBlank),
                                          TextItem(TxtTotal)>>)]

\* {"message": "Request Timeout"}
evTimeout == [EmptyEvent EXCEPT !.message = Str(MsgTimeout)]

\* {"error": ""}
evErrorEmpty == [EmptyEvent EXCEPT !.error = Str(<<>>)]

\* {"error": "boom"}
evErrorBoom == [EmptyEvent EXCEPT !.error = Str(ErrBoom)]

\* {"message": "working", "error": "boom"}
evErrorBoth == [EmptyEvent EXCEPT !.message = Str(MsgWorking), !.error = Str(ErrBoom)]

\* {"role": "assistant", "content": [{"type": "tool_result", "tool_result":
\*    {"name": "contract_analytics", "content": [
\*        {"type": "json", "json": {"sql": "SELECT 1", "text": "interp two",
\*                                  "verified_query_used": true}},
\*        {"type": "text", "text": "Total: 42"}]}}]}
evToolResult ==
    [EmptyEvent EXCEPT
        !.role = Str(S_assistant),
        !.content = List(<<
            [EmptyItem EXCEPT
                !.type = Str(S_tool_result),
                !.tool_result =
                    [t |-> "dict", name |-> Str(S_contract_analytics),
                     content |-> List(<<
                        [EmptyContentItem EXCEPT
                            !.type = Str(S_json),
                            !.json = [t |-> "dict", sql |-> Str(SqlOne),
                                      text |-> Str(InterpTwo),
                                      verified_query_used |-> True]],
                        [EmptyContentItem EXCEPT
                            !.type = Str(S_text), !.text = Str(TxtTotal)]>>)]]>>)]

\* {"interpretation": "interp one", "verified_query": true}
evInterp == [EmptyEvent EXCEPT !.interpretation = Str(InterpOne), !.verified_query = True]

\* {"message": {}, "content": [{"interpretation": "interp one", "sql": "SELECT 2"}]}
evNested ==
    [EmptyEvent EXCEPT
        !.message = Dict,
        !.content = List(<<[EmptyItem EXCEPT !.interpretation = Str(InterpOne),
                                             !.sql = Str(SqlTwo)]>>)]

\* {"text": "", "based_on_verified_query": false}
evEmptyText == [EmptyEvent EXCEPT !.text = Str(<<>>), !.based_on_verified_query = False]

\* {"content": [{"type": "text", "text":
\*    "Let me check the data first, ok.\n\nThere are 42 contracts in total."}]}
evThinking ==
    [EmptyEvent EXCEPT !.content = List(<<TextItem(TokThinking \o NLNL \o TokAnswer)>>)]

\* {"role": "assistant", "text": " Result: 1 ", "metadata": {"is_semantic_sql": true}}
evAssistantText ==
    [EmptyEvent EXCEPT
        !.role = Str(S_assistant), !.text = Str(TxtResult),
        !.metadata = [t |-> "dict", is_semantic_sql |-> True, verified_query |-> Absent]]

\* {"content": 5}
evBadContent == [EmptyEvent EXCEPT !.content = NotIterable]

\* {"message": "Query failed"}
evFailed == [EmptyEvent EXCEPT !.message = Str(MsgFailed)]

\* 5, a JSON value that is no object
evNumber == [EmptyEvent EXCEPT !.isdict = FALSE]

\* {"role": "assistant", "content": [], "text": "Total: 42"}
evAssistantBoth ==
    [EmptyEvent EXCEPT !.role = Str(S_assistant), !.content = List(<<>>),
                       !.text = Str(TxtTotal)]

\* {"role": "assistant", "content": [{"type": "tool_result", "tool_result":
\*    {"name": "contract_analytics", "content": [{"type": "text", "text":
\*        "Let me check the data first, ok.\n\nThere are 42 contracts in total."}]}}]}
evToolThinking ==
    [EmptyEvent EXCEPT
        !.role = Str(S_assistant),
        !.content = List(<<
            [EmptyItem EXCEPT
                !.type = Str(S_tool_result),
                !.tool_result =
                    [t |-> "dict", name |-> Str(S_contract_analytics),
                     content |-> List(<<
                        [EmptyContentItem EXCEPT
                            !.type = Str(S_text),
                            !.text = Str(TokThinking \o NLNL \o TokAnswer)]>>)]]>>)]

EventPool ==
    {evSql, evAnswer, evTimeout, evErrorEmpty, evErrorBoom, evErrorBoth, evToolResult,
     evInterp, evNested, evEmptyText, evThinking, evAssistantText, evBadContent,
     evFailed, evNumber, evAssistantBoth, evToolThinking}

\* A response line: kind "event" is "data: " and a JSON value; "blank" an empty
\* line; "other" a line without the "data: " prefix; "malformed" a data line whose
\* payload is no JSON; "undecodable" bytes that are no UTF-8; "dropped" stands for
\* the stream breaking, where iter_lines raises instead of giving a line
Line(kind, ev) == [kind |-> kind, event |-> ev]
LinePool ==
    {Line("event", ev) : ev \in EventPool}
        \cup {Line(k, EmptyEvent) :
                 k \in {"blank", "other", "malformed", "undecodable", "dropped"}}

\* The largest number of lines of a response
MaxLines == 3

\* text_content is never appended to
text_content == <<>>

(***************************************************************************)
(* The command and action handlers                                         *)
(*                                                                         *)
(* Bolt runs every listener on a thread of its pool, so invocations of the *)
(* handlers interleave. A step of an invocation is a stretch of the        *)
(* handler between two accesses to _command_lock or _recent_commands: the  *)
(* calls to Slack and to the agent touch neither, so they are joined to    *)
(* the step they follow.                                                   *)
(***************************************************************************)
RecentMaxLen == 100

MaxInvocations == 2

Handlers == {"dex", "dex_help", "quick_question", "show_query_details"}

UserU1 == <<"U", "1">>

TriggerT1 == <<"T", "1">>

PaddedHowMany == <<" ", "h", "o", "w", " ", "m", "a", "n", "y", "?", " ">>

Blank == <<" ", " ">>

(* A /dex command: an absent id is the empty str, which `or` skips as well. *)
Command(command_id, trigger_id, user_id, txt) ==
    [command_id |-> command_id, trigger_id |-> trigger_id, user_id |-> user_id,
     text |-> txt]

NoCommand == Command(<<>>, <<>>, <<>>, <<>>)

(* The /dex commands that arrive, each with the time.time() its handler  *)
(* reads: one carries a trigger id and no question, the other two fall   *)
(* in the same five seconds and differ in the blanks around the          *)
(* question.                                                             *)
Arrival(command, current_time) == [command |-> command, current_time |-> current_time]

NoArrival == Arrival(NoCommand, 0)

DexArrivals ==
    { Arrival(Command(<<>>, TriggerT1, UserU1, Blank), 6),
      Arrival(Command(<<>>, <<>>, UserU1, QuestionHowMany), 3),
      Arrival(Command(<<>>, <<>>, UserU1, PaddedHowMany), 4) }

(* question = command.get("text", "").strip() *)
question_of(command) == strip(command.text)

(* command.get("command_id") or command.get("trigger_id") *)
command_id_of(command) ==
    IF command.command_id # <<>> THEN command.command_id ELSE command.trigger_id

rounded_time(current_time) == (current_time \div 5) * 5

(* The key is a str: the id itself, or user, question and rounded time    *)
(* joined with colons. The rounded time is kept as a number.              *)
command_key(command, current_time) ==
    IF command_id_of(command) # <<>>
    THEN [id |-> command_id_of(command), time |-> 0]
    ELSE [id |-> command.user_id \o <<":">> \o question_of(command) \o <<":">>,
          time |-> rounded_time(current_time)]

NoKey == [id |-> <<>>, time |-> 0]

(* deque(maxlen=100).append *)
deque_append(q, x) ==
    IF Len(q) = RecentMaxLen THEN Append(Tail(q), x) ELSE Append(q, x)

(* Where a handler goes after its ack() calls. /dex wraps them in          *)
(* try/except and carries on; in the other handlers the exception leaves   *)
(* the handler.                                                            *)
after_ack_unguarded(handler, ack_ok) ==
    IF ~ack_ok THEN "raised"
    ELSE IF handler = "dex" THEN "check_lock" ELSE "body"

after_ack(handler, ack_ok) ==
    IF handler = "dex" THEN "check_lock"
    ELSE IF ack_ok THEN "body" ELSE "raised"

(* The ack() calls of a handler: /dex tries a second time when the first   *)
(* raises.                                                                 *)
ack_calls(handler, first_ok) ==
    IF handler = "dex" /\ ~first_ok THEN <<"ack", "ack">> ELSE <<"ack">>

Invocation(handler, command, current_time) ==
    [handler |-> handler, command |-> command, current_time |-> current_time,
     pc |-> "start", ack_ok |-> FALSE, question |-> <<>>, command_key |-> NoKey,
     steps |-> <<>>]

DexIdle ==
    /\ _command_lock = {}
    /\ _recent_commands = <<>>
    /\ invocations = <<>>
    /\ cleanup_threads = {}
    /\ configured = FALSE

(***************************************************************************)
(* kpi_sheet_automation: the values of the latest month written to the     *)
(* sheet                                                                   *)
(*                                                                         *)
(* df is the frame after line 169, its rows all of the latest month, each  *)
(* with the display name KPI_MAPPING gave its KPI (NaN for a KPI the       *)
(* mapping does not name). sheet_rows is the sheet from row 1 on, columns  *)
(* A and B; headers is row 1 in full.                                      *)
(***************************************************************************)
BATCH_SIZE == 200

\* The values of KPI_VALUE
NoneValue == [t |-> "NoneType", v |-> "None"]
IntValue(n) == [t |-> "int", v |-> n]
FloatValue(v) == [t |-> "float", v |-> v]
NaN == FloatValue("nan")

np_isnan(value) == value.v = "nan"
np_isinf(value) == value.v \in {"inf", "-inf"}

\* value is None or (isinstance(value, float) and (np.isnan(value) or np.isinf(value))),
\* without the test for inf
skip_value_nan_only(value) ==
    value.t = "NoneType" \/ (value.t = "float" /\ np_isnan(value))

\* value is None or (isinstance(value, float) and (np.isnan(value) or np.isinf(value)))
skip_value(value) ==
    value.t = "NoneType" \/ (value.t = "float" /\ (np_isnan(value) \/ np_isinf(value)))

\* df["MONTH"].iloc[0]
latest_month_str_of(frame) == frame[1].MONTH

\* dict(zip(df["KPI_DISPLAY"], df["KPI_VALUE"])): the last row of a name gives its value
latest_map_of(frame) ==
    [k \in {frame[j].KPI_DISPLAY : j \in DOMAIN frame} |->
        frame[CHOOSE j \in DOMAIN frame :
                 /\ frame[j].KPI_DISPLAY = k
                 /\ \A m \in DOMAIN frame : frame[m].KPI_DISPLAY = k => m <= j].KPI_VALUE]

\* sheet.col_values(col): the column down to its last cell that is not empty
col_values(rows, col) ==
    LET filled == {j \in DOMAIN rows : rows[j][col] # ""}
        last == IF filled = {} THEN 0 ELSE CHOOSE j \in filled : \A m \in filled : m <= j
    IN [j \in 1..last |-> rows[j][col]]

\* headers.index(latest_month_str) + 1
header_col(row1, month) ==
    CHOOSE c \in DOMAIN row1 : row1[c] = month /\ \A m \in DOMAIN row1 : row1[m] = month => c <= m

\* gspread.utils.rowcol_to_a1, for the first 26 columns: the letter, then the row
ColumnLetters ==
    <<"A", "B", "C", "D", "E", "F", "G", "H", "I", "J", "K", "L", "M",
      "N", "O", "P", "Q", "R", "S", "T", "U", "V", "W", "X", "Y", "Z">>
rowcol_to_a1(row, col) == [letters |-> ColumnLetters[col], digits |-> row]

\* enumerate(zip(sheet_kpis[1:], sheet_types[1:]), start=2): the row numbers it yields
zipped_rows(sheet_kpis, sheet_types) ==
    LET n == IF Len(sheet_kpis) <= Len(sheet_types) THEN Len(sheet_kpis)
             ELSE Len(sheet_types)
    IN [j \in 1..(IF n >= 1 THEN n - 1 ELSE 0) |-> j + 1]

\* The loop of lines 210-225 on the sheet's columns
queue_updates(sheet_kpis, sheet_types, latest_map, col) ==
    LET rows == zipped_rows(sheet_kpis, sheet_types)
        queued(row_index) ==
            /\ sheet_types[row_index] = "Automated"
            /\ Str(sheet_kpis[row_index]) \in DOMAIN latest_map
            /\ ~skip_value(latest_map[Str(sheet_kpis[row_index])])
        queued_rows == SelectSeq(rows, queued)
    IN [pending_updates |->
            [k \in 1..Len(queued_rows) |->
                [range |-> rowcol_to_a1(queued_rows[k], col),
                 values |-> << <<latest_map[Str(sheet_kpis[queued_rows[k]])]>> >>]],
        updated_count |-> Len(queued_rows),
        skipped_count |-> Len(rows) - Len(queued_rows)]

\* pending_updates[i:i + BATCH_SIZE]
chunk_at(updates, start) ==
    SubSeq(updates, start + 1,
           IF start + BATCH_SIZE <= Len(updates) THEN start + BATCH_SIZE ELSE Len(updates))

\* What sheet.batch_update(chunk, value_input_option="RAW") can do: write the cells,
\* or raise an APIError with the code and message of the response, or another error
Written == [raises |-> "no", code |-> 200, message |-> <<>>]
APIError(code, message) == [raises |-> "APIError", code |-> code, message |-> message]
ConnectionError == [raises |-> "ConnectionError", code |-> 0, message |-> <<>>]

\* str(e) of an APIError, in pieces: the code and the message of the response
str_of_error(e) == <<"APIError: [", ToString(e.code), "]: ">> \o e.message

\* "429" in str(e)
has_429(e) == \E k \in DOMAIN str_of_error(e) : str_of_error(e)[k] = "429"

\* The cells a chunk writes, each with the value it gets
cells_of(chunk) ==
    {[range |-> chunk[k].range, value |-> chunk[k].values[1][1]] : k \in DOMAIN chunk}

NoFrame == <<>>

KpiIdle ==
    /\ sheet_rows = <<>>
    /\ headers = <<>>
    /\ df = NoFrame
    /\ month_col = 0
    /\ pending_updates = <<>>
    /\ updated_count = 0
    /\ skipped_count = 0
    /\ flush_i = 0
    /\ batch_calls = <<>>
    /\ cells = {}

(***************************************************************************)
(* payex_update_payment_types: the payment types of a batch of customers,  *)
(* fetched one after the other or by the threads of a pool                 *)
(*                                                                         *)
(* responses[k] is what the request for customer_ids[k] meets: a response  *)
(* with its status code and JSON body, or an exception of session.get.     *)
(***************************************************************************)
consent_flags ==
    <<"Autogiro", "Avtalegiro", "Betalingsservice", "RecurringCard",
      "RecurringInvoiceToken", "EInvoice", "Kivra", "EBoks">>

\* The JSON body of a response; customerNo is a str of digits, an int, or missing
CustomerBody(customerNo, name, activeConsents) ==
    [customerNo |-> customerNo, name |-> name, emailAddress |-> NoneValue,
     activeConsents |-> activeConsents, legalStatus |-> "Active"]
NoBody == CustomerBody(NoneValue, "", <<>>)

Response(status_code, body) == [raises |-> FALSE, status_code |-> status_code, data |-> body]
RequestException == [raises |-> TRUE, status_code |-> 0, data |-> NoBody]

\* int() of a str of decimal digits
RECURSIVE int_of_digits(_)
int_of_digits(digits) ==
    IF digits = <<>> THEN 0
    ELSE 10 * int_of_digits(SubSeq(digits, 1, Len(digits) - 1)) + digits[Len(digits)]

\* int(data.get("customerNo")) raises TypeError for None
int_raises(value) == value.t = "NoneType"
int_of(value) == IF value.t = "int" THEN value.v ELSE int_of_digits(value.v)

\* ",".join(consents), in pieces
RECURSIVE join_comma(_)
join_comma(consents) ==
    IF Len(consents) <= 1 THEN consents
    ELSE <<consents[1], ",">> \o join_comma(Tail(consents))

\* The tuple built from the body of a 200 response
record_of(body) ==
    [customerNo |-> int_of(body.customerNo), name |-> body.name,
     emailAddress |-> body.emailAddress, consents |-> join_comma(body.activeConsents),
     flags |-> [k \in DOMAIN consent_flags |->
                   IF \E c \in DOMAIN body.activeConsents :
                          body.activeConsents[c] = consent_flags[k]
                   THEN 1 ELSE 0],
     legalStatus |-> body.legalStatus]

NoRecord == [customerNo |-> 0, name |-> "", emailAddress |-> NoneValue, consents |-> <<>>,
             flags |-> [k \in DOMAIN consent_flags |-> 0], legalStatus |-> ""]

\* The tuple (cid, ok, record, err) fetch_one_customer returns
Fetched(cid, ok, record, err) == [cid |-> cid, ok |-> ok, record |-> record, err |-> err]
NoFetched == Fetched(0, FALSE, NoRecord, "None")

\* fetch_one_customer that takes every status for a 200
fetch_one_customer_any_status(cid, resp) ==
    IF resp.raises \/ int_raises(resp.data.customerNo)
    THEN Fetched(cid, FALSE, NoRecord, "str(e)")
    ELSE Fetched(cid, TRUE, record_of(resp.data), "None")

fetch_one_customer(cid, resp) ==
    IF resp.raises THEN Fetched(cid, FALSE, NoRecord, "str(e)")
    ELSE IF resp.status_code = 200
    THEN IF int_raises(resp.data.customerNo)
         THEN Fetched(cid, FALSE, NoRecord, "str(e)")
         ELSE Fetched(cid, TRUE, record_of(resp.data), "None")
    ELSE IF resp.status_code = 404 THEN Fetched(cid, FALSE, NoRecord, "None")
    ELSE Fetched(cid, FALSE, NoRecord, "Status")

\* fetch_payment_types_serial: the records of the customers, in the order of the batch
RECURSIVE fetch_payment_types_serial(_, _)
fetch_payment_types_serial(ids, resps) ==
    IF ids = <<>> THEN <<>>
    ELSE LET n == Len(ids)
             before == fetch_payment_types_serial(SubSeq(ids, 1, n - 1),
                                                  SubSeq(resps, 1, n - 1))
         IN IF ~resps[n].raises /\ resps[n].status_code = 200
               /\ ~int_raises(resps[n].data.customerNo)
            THEN Append(before, record_of(resps[n].data))
            ELSE before

\* A future of the executor: waiting in the queue, running in a thread, finished,
\* or finished and yielded by as_completed
Future(cid, state, fetched) == [cid |-> cid, state |-> state, fetched |-> fetched]

PayexIdle ==
    /\ customer_ids = <<>>
    /\ responses = <<>>
    /\ max_workers = 0
    /\ futures = <<>>
    /\ records = <<>>
    /\ done_count = 0

ScriptsIdle == KpiIdle /\ PayexIdle

(***************************************************************************)
(* Specification of call_cortex_agent                                      *)
(***************************************************************************)

NoResponse == [set |-> FALSE, event |-> EmptyEvent]

AgentIdle ==
    /\ lines_read = 0
    /\ all_events = <<>>
    /\ final_response = NoResponse
    /\ metadata = NoMetadata
    /\ interpretation = Null
    /\ sql_queries = <<>>
    /\ verified_query_info = Null
    /\ error_message = Null
    /\ answer_text = Null
    /\ result = NoResult
    /\ response = Unsent
    /\ formatted = NotFormatted

FilterIdle == text = <<>> /\ n_pieces = 0 /\ filtered = <<>> /\ refiltered = <<>>

ButtonIdle ==
    data = NoData /\ button_value = NoData /\ blocks = NoBlocks /\ clicks = 0

Init ==
    pc = "request" /\ AgentIdle /\ FilterIdle /\ ButtonIdle /\ DexIdle /\ ScriptsIdle

\* The bodies of the responses that carry an error status
LongBody == [i \in 1..(ErrorTextCap + 1) |-> "x"]
BodyPool == {<<>>, BodyDenied, LongBody}
StatusPool == {<<"4", "0", "1">>, <<"4", "0", "4">>, <<"5", "0", "0">>}

Exchanges ==
    {Exchange(o, <<>>, <<>>) : o \in {"unconfigured", "timeout", "refused"}}
        \cup {Exchange("status", s, b) : s \in StatusPool, b \in BodyPool}
        \cup {Exchange("ok", <<"2", "0", "0">>, <<>>)}

\* The configuration test, requests.post and raise_for_status: lines 56-90 and the
\* except clauses of lines 580-591
Request ==
    /\ pc = "request"
    /\ \E x \in Exchanges :
          /\ response' = x
          /\ IF x.outcome = "ok" THEN pc' = "stream" /\ UNCHANGED result
             ELSE /\ pc' = "done"
                  /\ result' = CASE x.outcome = "unconfigured" -> UnconfiguredResult
                                  [] x.outcome = "timeout" -> TimeoutResult
                                  [] x.outcome = "refused" -> ExceptionResult
                                  [] x.outcome = "status" ->
                                         HTTPErrorResult(x.status_code, x.text)
    /\ UNCHANGED <<lines_read, all_events, final_response, metadata, interpretation,
                   sql_queries, verified_query_info, error_message, answer_text,
                   formatted, filter_vars, button_vars, dex_vars, script_vars>>

\* except Exception: the call ends with the error str
Raise ==
    /\ pc' = "done"
    /\ result' = ExceptionResult

\* One event of the stream: lines 112-182
ConsumeEvent(ev) ==
    /\ all_events' = Append(all_events, ev)
    /\ IF ~ev.isdict \/ probe_interpretation_raises(ev, interpretation)
             \/ probe_sql_raises(ev)
       THEN /\ Raise
            /\ UNCHANGED <<final_response, metadata, interpretation, sql_queries,
                           verified_query_info, error_message>>
       ELSE /\ final_response' =
                  IF is_assistant(ev) THEN [set |-> TRUE, event |-> ev] ELSE final_response
            /\ metadata' = next_metadata(ev, metadata)
            /\ interpretation' = probe_interpretation(ev, interpretation)
            /\ sql_queries' = add_sql(sql_queries, probe_sql(ev))
            /\ verified_query_info' =
                  next_verified(ev, next_metadata(ev, metadata), verified_query_info)
            /\ error_message' = next_error_message(ev, error_message)
            /\ UNCHANGED <<pc, result>>
    /\ UNCHANGED response

\* One turn of for line in response.iter_lines()
ReadLine ==
    /\ pc = "stream"
    /\ lines_read < MaxLines
    /\ lines_read' = lines_read + 1
    /\ \E line \in LinePool :
          IF line.kind = "event" THEN ConsumeEvent(line.event)
          ELSE IF line.kind \in {"undecodable", "dropped"}
               THEN /\ Raise
                    /\ response' = IF line.kind = "dropped"
                                   THEN [response EXCEPT !.outcome = "dropped"]
                                   ELSE response
                    /\ UNCHANGED <<all_events, final_response, metadata, interpretation,
                                   sql_queries, verified_query_info, error_message>>
          ELSE UNCHANGED <<pc, all_events, final_response, metadata, interpretation,
                           sql_queries, verified_query_info, error_message, result,
                           response>>
    /\ UNCHANGED <<answer_text, filter_vars, button_vars, dex_vars, script_vars, formatted>>

\* The stream ends; if error_message: return the error dict
EndOfStream ==
    /\ pc = "stream"
    /\ IF truthy(error_message)
       THEN pc' = "done" /\ result' = ErrorResult(error_message, metadata)
       ELSE pc' = "priority1" /\ UNCHANGED result
    /\ UNCHANGED <<lines_read, all_events, final_response, metadata, interpretation,
                   sql_queries, verified_query_info, error_message, answer_text,
                   filter_vars, button_vars, dex_vars, script_vars, response, formatted>>

\* PRIORITY 1: lines 206-237
Priority1 ==
    /\ pc = "priority1"
    /\ LET r == priority1(final_response.event, sql_queries, verified_query_info)
       IN  IF ~final_response.set
           THEN /\ pc' = "priority3"
                /\ UNCHANGED <<answer_text, sql_queries, verified_query_info, result>>
           ELSE IF r.raises
           THEN Raise /\ UNCHANGED <<answer_text, sql_queries, verified_query_info>>
           ELSE /\ pc' = "priority3"
                /\ answer_text' = r.answer_text
                /\ sql_queries' = r.sql_queries
                /\ verified_query_info' = r.verified_query_info
                /\ UNCHANGED result
    /\ UNCHANGED <<lines_read, all_events, final_response, metadata, interpretation,
                   error_message, filter_vars, button_vars, dex_vars, script_vars, response,
                   formatted>>

\* PRIORITY 2, which needs text_content, lines 316-325
priority2(answer) ==
    IF ~truthy(answer) /\ text_content # <<>>
    THEN LET filtered_text == SelectSeq(text_content, LAMBDA t : strip(t) # <<>>)
         IN  IF filtered_text # <<>> THEN Str(filter_thinking_steps(join(NL, filtered_text)))
             ELSE Str(filter_thinking_steps(join(<<>>, text_content)))
    ELSE answer

\* PRIORITY 2 and PRIORITY 3: lines 316-403
Priority3 ==
    /\ pc = "priority3"
    /\ LET r == priority3(final_response.event, sql_queries, verified_query_info,
                          interpretation)
       IN  IF truthy(priority2(answer_text)) \/ ~final_response.set
           THEN /\ pc' = "fallback"
                /\ answer_text' = priority2(answer_text)
                /\ UNCHANGED <<sql_queries, verified_query_info, interpretation, result>>
           ELSE IF r.raises
           THEN Raise /\ UNCHANGED <<answer_text, sql_queries, verified_query_info,
                                     interpretation>>
           ELSE /\ pc' = "fallback"
                /\ answer_text' = r.answer_text
                /\ sql_queries' = r.sql_queries
                /\ verified_query_info' = r.verified_query_info
                /\ interpretation' = r.interpretation
                /\ UNCHANGED result
    /\ UNCHANGED <<lines_read, all_events, final_response, metadata, error_message,
                   filter_vars, button_vars, dex_vars, script_vars, response, formatted>>

\* The final fallback over all_events: lines 406-422
FinalFallback ==
    /\ pc = "fallback"
    /\ LET r == final_fallback(all_events, answer_text)
       IN  IF truthy(answer_text)
           THEN pc' = "last_resort" /\ UNCHANGED <<answer_text, result>>
           ELSE IF r.raises THEN Raise /\ UNCHANGED answer_text
           ELSE pc' = "last_resort" /\ answer_text' = r.value /\ UNCHANGED result
    /\ UNCHANGED <<lines_read, all_events, final_response, metadata, interpretation,
                   sql_queries, verified_query_info, error_message, filter_vars,
                   button_vars, dex_vars, script_vars, response, formatted>>

\* The last extraction from the first event, and the unparsed dict: lines 425-482
LastResort ==
    /\ pc = "last_resort"
    /\ IF truthy(answer_text)
       THEN pc' = "rescan_interpretation" /\ UNCHANGED <<answer_text, result>>
       ELSE IF truthy(aggressive_text(all_events))
       THEN /\ pc' = "rescan_interpretation"
            /\ answer_text' = aggressive_text(all_events)
            /\ UNCHANGED result
       ELSE pc' = "done" /\ result' = UnparsedResult /\ UNCHANGED answer_text
    /\ UNCHANGED <<lines_read, all_events, final_response, metadata, interpretation,
                   sql_queries, verified_query_info, error_message, filter_vars,
                   button_vars, dex_vars, script_vars, response, formatted>>

\* The last look for an interpretation: lines 486-506
RescanInterpretation ==
    /\ pc = "rescan_interpretation"
    /\ LET r == interpretation_rescan(all_events, interpretation)
       IN  IF truthy(interpretation)
           THEN pc' = "rescan_sql" /\ UNCHANGED <<interpretation, result>>
           ELSE IF r.raises THEN Raise /\ UNCHANGED interpretation
           ELSE pc' = "rescan_sql" /\ interpretation' = r.value /\ UNCHANGED result
    /\ UNCHANGED <<lines_read, all_events, final_response, metadata, sql_queries,
                   verified_query_info, error_message, answer_text, filter_vars,
                   button_vars, dex_vars, script_vars, response, formatted>>

\* The last look for SQL: lines 510-536
RescanSql ==
    /\ pc = "rescan_sql"
    /\ LET r == sql_rescan(all_events)
       IN  IF sql_queries # <<>>
           THEN pc' = "build" /\ UNCHANGED <<sql_queries, result>>
           ELSE IF r.raises THEN Raise /\ UNCHANGED sql_queries
           ELSE pc' = "build" /\ sql_queries' = r.value /\ UNCHANGED result
    /\ UNCHANGED <<lines_read, all_events, final_response, metadata, interpretation,
                   verified_query_info, error_message, answer_text, filter_vars,
                   button_vars, dex_vars, script_vars, response, formatted>>

\* response_data is built and returned: lines 541-578
BuildResponse ==
    /\ pc = "build"
    /\ pc' = "done"
    /\ result' = ResultDict("answer", answer_text, interpretation, sql_queries,
                            is_verified(verified_query_info, metadata, answer_text,
                                        sql_queries),
                            metadata)
    /\ UNCHANGED <<lines_read, all_events, final_response, metadata, interpretation,
                   sql_queries, verified_query_info, error_message, answer_text,
                   filter_vars, button_vars, dex_vars, script_vars, response, formatted>>

\* The caller hands the result to format_slack_response with its question
FormatResponse ==
    /\ pc = "done"
    /\ pc' = "formatted"
    /\ \E question \in {<<>>, QuestionHowMany} :
          formatted' = format_slack_response(result, question)
    /\ UNCHANGED <<lines_read, all_events, final_response, metadata, interpretation,
                   sql_queries, verified_query_info, error_message, answer_text, result,
                   response, filter_vars, button_vars, dex_vars, script_vars>>

Next ==
    \/ Request
    \/ ReadLine
    \/ EndOfStream
    \/ Priority1
    \/ Priority3
    \/ FinalFallback
    \/ LastResort
    \/ RescanInterpretation
    \/ RescanSql
    \/ BuildResponse
    \/ FormatResponse

Spec == Init /\ [][Next]_vars

(***************************************************************************)
(* Properties of call_cortex_agent                                         *)
(***************************************************************************)

\* The positions in the stream of the events recognised as in-band errors
keyword_errors(events) ==
    {i \in 1..Len(events) : events[i].isdict /\ is_keyword_error(events[i])}

\* C1 as claimed: when an event of the stream is an in-band error and the call
\* returns a dict, the dict is the error result carrying that event's message
InBandErrorTakesPrecedence ==
    (pc = "done" /\ result.kind # "exception" /\ keyword_errors(all_events) # {})
        => \E i \in keyword_errors(all_events) :
              result = ErrorResult(all_events[i].message, metadata)

\* C2 as claimed: when several events are in-band errors, the error result
\* carries the message of the first of them
FirstErrorMessageReported ==
    (pc = "done" /\ result.kind = "error" /\ Cardinality(keyword_errors(all_events)) >= 2)
        => result.answer
              = ErrorResult(all_events[MinOf(keyword_errors(all_events))].message,
                            metadata).answer

\* C3 as claimed: when no line of the response is a data line that decodes as
\* JSON, the call returns the unparsed result
NoDataLineUnparsed ==
    (pc = "done" /\ response.outcome = "ok" /\ all_events = <<>>) => result = UnparsedResult

\* The entries of type "text" of the content list of an event
text_entries(ev) ==
    IF has(ev.content) /\ ev.content.t = "list"
    THEN SelectSeq(ev.content.items,
                   LAMBDA item : item.isdict /\ get(item.type) = Str(S_text)
                                    /\ isstr(get_or_empty(item.text)))
    ELSE <<>>

\* The texts of the entries that are not empty
nonempty_texts(ev) ==
    LET kept == SelectSeq(text_entries(ev), LAMBDA item : item.text.v # <<>>)
    IN  [i \in 1..Len(kept) |-> kept[i].text.v]

\* The texts of the entries that are not blank, without surrounding whitespace
stripped_texts(ev) ==
    LET kept == SelectSeq(text_entries(ev), LAMBDA item : strip(item.text.v) # <<>>)
    IN  [i \in 1..Len(kept) |-> strip(kept[i].text.v)]

no_duplicates(queries) ==
    \A i, j \in 1..Len(queries) : i # j => queries[i] # queries[j]

\* C5: sql_queries never holds two equal statements, during the call and in the
\* result
NoDuplicateSql == no_duplicates(sql_queries) /\ no_duplicates(result.sql_queries)

\* C5 witness: the same statement is surfaced by an event of the stream and by the
\* tool_result of final_response, and the answer has it once
SqlSurfacedTwiceKeptOnce ==
    /\ pc = "done" /\ result.kind = "answer"
    /\ evSql \in Range(all_events)
    /\ final_response.event = evToolResult
    /\ result.sql_queries = <<Str(SqlOne)>>

\* The entries of the tool_result content lists of an event
tool_result_entries(ev) ==
    UNION {Range(item.tool_result.content.items) : item \in Range(ev.content.items)}

\* The event carries an explicit verification flag
has_flag(ev) ==
    \/ has(ev.verified_query) \/ has(ev.based_on_verified_query)
    \/ has(ev.metadata.is_semantic_sql) \/ has(ev.metadata.verified_query)
    \/ \E c \in tool_result_entries(ev) : has(c.json.verified_query_used)

no_flags == \A i \in 1..Len(all_events) : ~has_flag(all_events[i])

\* The values an event holds under a key that names SQL
sql_values(ev) ==
    ({ev.sql, ev.query, ev.logical_query, ev.physical_query, ev.sql_query}
        \cup UNION {{item.sql, item.query, item.logical_query} :
                       item \in Range(ev.content.items)}
        \cup {c.json.sql : c \in tool_result_entries(ev)}) \ {Absent}

\* The position of the first event of the stream whose SQL probe gives q; past the
\* end for a statement that only final_response's tool_result holds
first_seen(q) ==
    LET hits == {k \in 1..Len(all_events) : probe_sql(all_events[k]) = q}
    IN  IF hits = {} THEN Len(all_events) + 1 ELSE MinOf(hits)

\* C6: an answer with SQL and without any verification flag in the stream is
\* verified, and its statements are in the order the stream first showed them, those
\* of final_response's tool_result after them
SqlAnswerVerifiedInOrder ==
    (pc = "done" /\ result.kind = "answer" /\ result.sql_queries # <<>> /\ no_flags)
        => /\ result.verified
           /\ \A i, j \in 1..Len(result.sql_queries) :
                 i < j => \/ first_seen(result.sql_queries[i]) < first_seen(result.sql_queries[j])
                          \/ first_seen(result.sql_queries[j]) = Len(all_events) + 1

\* C6 witness: {"sql": S} and then an assistant text event
SqlThenAssistantText ==
    /\ pc = "done" /\ result.kind = "answer"
    /\ all_events = <<evSql, evAnswer>>
    /\ result.sql_queries = <<Str(SqlOne)>>
    /\ result.verified

\* C7: the statements of an answer are values of the stream's events; an answer
\* for a stream that holds no SQL and no verification flag is verified, with
\* sql_queries empty and sql_query None
AnswerOnlyVerifiedNoSql ==
    (pc = "done" /\ result.kind = "answer")
        => /\ \A q \in Range(result.sql_queries) :
                 \E i \in 1..Len(all_events) : q \in sql_values(all_events[i])
           /\ ((\A i \in 1..Len(all_events) : sql_values(all_events[i]) = {}) /\ no_flags)
                 => /\ result.verified
                    /\ result.sql_queries = <<>>
                    /\ result.sql_query = Null

\* C7 witness: an assistant text event alone
AssistantTextAlone ==
    /\ pc = "done" /\ result.kind = "answer"
    /\ all_events = <<evAnswer>>
    /\ result.verified
    /\ result.sql_queries = <<>> /\ result.sql_query = Null

\* C11 as claimed: a line that yields no event (no "data: " prefix, or a payload
\* that is no JSON) changes nothing but the position in the stream, so the call
\* goes on as if the line were not there
SkippedLineChangesNothing ==
    [][(lines_read' = lines_read + 1 /\ all_events' = all_events /\ response' = response)
          => UNCHANGED <<pc, final_response, metadata, interpretation, sql_queries,
                         verified_query_info, error_message, answer_text, result>>]_vars

\* The str an exchange that failed is reported with
is_failure_text(x, chars) ==
    CASE x.outcome = "unconfigured" -> chars = UnconfiguredText
      [] x.outcome = "timeout" -> chars = TimeoutText
      [] x.outcome = "status" /\ x.status_code = <<"4", "0", "1">> -> chars = AuthText
      [] x.outcome = "status" /\ x.status_code = <<"4", "0", "4">> -> chars = NotFoundText
      [] x.outcome = "status" /\ x.text = <<>> ->
             chars = ErrorPrefix \o x.status_code \o <<":", " ">> \o NoErrorDetails
      [] OTHER ->
             \E k \in 1..ErrorTextCap :
                /\ k = Len(x.text) \/ (k = ErrorTextCap /\ Len(x.text) > ErrorTextCap)
                /\ chars = ErrorPrefix \o x.status_code \o <<":", " ">> \o SubSeq(x.text, 1, k)

\* C15: after a failed exchange call_cortex_agent has returned a str, never a
\* dict, whatever events were consumed before; for a missing configuration, a
\* timeout and an error status the str is the message of that category, the body
\* cut to 500 characters; and format_slack_response gives a str back as the text,
\* without blocks
TransportFailureReported ==
    /\ (pc \in {"done", "formatted"} /\ response.outcome # "ok")
          => /\ is_string_result(result)
             /\ result.sql_queries = <<>> /\ result.interpretation = Null
             /\ response.outcome \in {"unconfigured", "timeout", "status"}
                   => is_failure_text(response, result.answer.v)
    /\ (pc = "formatted" /\ is_string_result(result))
          => ~formatted.has_blocks /\ formatted.text = result.answer

\* C15 witness: a status 500 with a body of more than 500 characters has been
\* reported and formatted
LongErrorBodyReported ==
    /\ pc = "formatted"
    /\ response.outcome = "status" /\ response.status_code = <<"5", "0", "0">>
    /\ Len(response.text) > ErrorTextCap
    /\ ~formatted.has_blocks
    /\ Len(formatted.text.v) = Len(ErrorPrefix) + 5 + ErrorTextCap

\* C16 as claimed: when an event of the stream has a top-level error field with a
\* value and the call returns a dict, the dict is the error result
ErrorFieldReported ==
    (/\ pc = "done" /\ result.kind # "exception"
     /\ \E i \in 1..Len(all_events) : all_events[i].isdict /\ truthy(all_events[i].error))
        => result.kind = "error"

\* C17 as claimed: once interpretation has a value that is not empty, no step
\* changes it
InterpretationSetOnce ==
    [][truthy(interpretation) => interpretation' = interpretation]_vars

\* The places of an event that may hold an interpretation, in probing order
interpretation_locations(ev) ==
    <<ev.interpretation, ev.query_interpretation, ev.message_interpretation>>
        \o [i \in 1..Len(ev.content.items) |-> ev.content.items[i].interpretation]

\* The first value of the list that is not empty; None if there is none
first_nonempty(values) ==
    LET hits == {i \in 1..Len(values) : truthy(values[i])}
    IN  IF hits = {} THEN Null ELSE values[MinOf(hits)]

\* C18 as claimed: while interpretation is unset, an event that is consumed sets it
\* to the value of the first of its locations that is not empty
ProbingReachesLaterLocations ==
    [][(/\ pc = "stream" /\ pc' = "stream"
        /\ Len(all_events') = Len(all_events) + 1
        /\ ~truthy(interpretation)
        /\ truthy(first_nonempty(interpretation_locations(all_events'[Len(all_events')]))))
          => interpretation'
                = first_nonempty(interpretation_locations(all_events'[Len(all_events')]))]_vars

\* C19 as claimed: once verified_query_info is true, no step makes it false
VerifiedMonotone ==
    [][truthy(verified_query_info) => truthy(verified_query_info')]_vars

\* C20 as claimed: when final_response has a text that is not blank and a content
\* without entries or no content, and no error message is left, the answer is that
\* text
FinalResponseTextPreferred ==
    (/\ pc = "done" /\ result.kind # "exception" /\ ~truthy(error_message)
     /\ final_response.set
     /\ final_response.event.content.items = <<>>
     /\ isstr(final_response.event.text)
     /\ strip(final_response.event.text.v) # <<>>)
        => /\ result.kind = "answer"
           /\ result.answer = Str(strip(final_response.event.text.v))

\* The entries of the tool_result content lists of a content list, in order
RECURSIVE nested_entries(_)
nested_entries(items) ==
    IF items = <<>> THEN <<>>
    ELSE LET item == Head(items)
         IN  (IF /\ item.isdict /\ get(item.type) = Str(S_tool_result)
                 /\ item.tool_result.content.t = "list"
              THEN item.tool_result.content.items ELSE <<>>)
             \o nested_entries(Tail(items))

\* The texts nested in the tool_result entries of an event that are not blank,
\* without surrounding whitespace
nested_texts(ev) ==
    LET kept == SelectSeq(nested_entries(ev.content.items),
                          LAMBDA c : /\ c.isdict /\ get(c.type) = Str(S_text)
                                     /\ isstr(get_or_empty(c.text))
                                     /\ strip(c.text.v) # <<>>)
    IN  [i \in 1..Len(kept) |-> strip(kept[i].text.v)]

\* C21 as claimed: text taken from the content of final_response is not passed
\* through filter_thinking_steps: when the only text of final_response is nested in
\* its tool_result entries, the answer text taken from it is the newline-join of
\* those texts as they are
FinalResponseTextUnfiltered ==
    (/\ pc = "fallback" /\ final_response.set /\ truthy(answer_text)
     /\ text_entries(final_response.event) = <<>>
     /\ nested_texts(final_response.event) # <<>>)
        => answer_text = Str(join(NL, nested_texts(final_response.event)))

\* The texts that are not empty of the text entries of the events, in stream order
RECURSIVE all_nonempty_texts(_)
all_nonempty_texts(events) ==
    IF events = <<>> THEN <<>>
    ELSE nonempty_texts(Head(events)) \o all_nonempty_texts(Tail(events))

\* No event has a text of its own that is not empty
no_event_text ==
    \A i \in 1..Len(all_events) :
        ~(isstr(all_events[i].text) /\ all_events[i].text.v # <<>>)

\* C22 as claimed: when the final fallback starts without an answer text, no event
\* has a text of its own and some event has a text entry that is not empty, the
\* fallback leaves as answer text the first such entry, filtered
ContentTextFallback ==
    [][(/\ pc = "fallback" /\ pc' = "last_resort" /\ ~truthy(answer_text)
        /\ no_event_text
        /\ all_nonempty_texts(all_events) # <<>>)
          => answer_text' = Str(filter_thinking_steps(Head(all_nonempty_texts(all_events))))]_vars

\* Consuming the event raises: it is no dict, or its content cannot be iterated
raises_when_consumed(ev) == ~ev.isdict \/ ev.content = NotIterable

\* C27: the call always ends with a str or a dict, and once an event has raised
\* while it was consumed the call returns the generic error str, which holds none
\* of the answer, SQL or interpretation gathered before
ExceptionsEndInErrorText ==
    /\ pc \in {"done", "formatted"}
          => \/ is_string_result(result)
             \/ result.kind \in {"answer", "error", "unparsed"}
    /\ (\E i \in 1..Len(all_events) : raises_when_consumed(all_events[i]))
          => /\ pc \in {"done", "formatted"}
             /\ result = ExceptionResult
             /\ is_string_result(result)

\* C27 witness: an assistant event with a complete answer was consumed, then a data
\* line whose payload is a number, and the call has returned
AnswerDiscardedByLaterFailure ==
    /\ pc = "done"
    /\ Len(all_events) = 2
    /\ all_events[1] = evAnswer
    /\ all_events[2] = evNumber
    /\ final_response.set
    /\ result = ExceptionResult

(***************************************************************************)
(* Specification of truncate_button_value                                  *)
(***************************************************************************)

ButtonInit ==
    /\ pc = "truncate"
    /\ data \in {d \in DataPool : d.sql_queries # <<>> => d.sql_query = d.sql_queries[1]}
    /\ button_value = NoData
    /\ blocks = NoBlocks
    /\ clicks = 0
    /\ FilterIdle
    /\ AgentIdle
    /\ DexIdle
    /\ ScriptsIdle

TruncateButtonValue ==
    /\ pc = "truncate"
    /\ button_value' = truncate_button_value(data)
    /\ pc' = "truncated"
    /\ UNCHANGED <<data, blocks, clicks, filter_vars, agent_vars, dex_vars, script_vars>>

ButtonNext == TruncateButtonValue

SpecButton == ButtonInit /\ [][ButtonNext]_vars

(***************************************************************************)
(* Specification of filter_thinking_steps applied once and twice           *)
(***************************************************************************)

FilterInit ==
    /\ pc = "build_text"
    /\ text = <<>>
    /\ n_pieces = 0
    /\ filtered = <<>>
    /\ refiltered = <<>>
    /\ ButtonIdle
    /\ AgentIdle
    /\ DexIdle
    /\ ScriptsIdle

\* The caller's text grows by one line
AppendLine ==
    /\ pc = "build_text"
    /\ n_pieces < MaxTextLines
    /\ \E line \in TextLines :
          text' = IF n_pieces = 0 THEN line ELSE text \o NL \o line
    /\ n_pieces' = n_pieces + 1
    /\ UNCHANGED <<pc, filtered, refiltered, button_vars, dex_vars, script_vars, agent_vars>>

FilterOnce ==
    /\ pc = "build_text"
    /\ filtered' = filter_thinking_steps(text)
    /\ pc' = "filtered"
    /\ UNCHANGED <<text, n_pieces, refiltered, button_vars, dex_vars, script_vars, agent_vars>>

FilterTwice ==
    /\ pc = "filtered"
    /\ refiltered' = filter_thinking_steps(filtered)
    /\ pc' = "refiltered"
    /\ UNCHANGED <<text, n_pieces, filtered, button_vars, dex_vars, script_vars, agent_vars>>

FilterNext == AppendLine \/ FilterOnce \/ FilterTwice

SpecFilter == FilterInit /\ [][FilterNext]_vars

\* C10: filtering a filtered text changes nothing
FilterIdempotent == pc = "refiltered" => refiltered = filtered

\* C10 witness: the first pass took a thinking paragraph away and the second pass
\* ran on what was left
ThinkingRemovedThenRefiltered ==
    /\ pc = "refiltered"
    /\ filter_exit(text) \in {"section", "paragraph"}
    /\ filtered # text /\ filtered # <<>>
    /\ contains(text, TokThinking)

\* a is the first characters of b
is_prefix(a, b) == a = run_prefix(b, run_len(a))

\* The str an optional str stands for in a payload: None and "" both give ""
str_of(x) == IF x.t = "str" THEN x.s ELSE <<>>

\* The SQL statements of the input as the SQL branch sees them
input_sql(d) ==
    IF d.sql_queries # <<>> THEN d.sql_queries
    ELSE IF str_truthy(d.sql_query) THEN <<d.sql_query>> ELSE <<>>

\* C8 as claimed: for every input dict the serialised payload has at most 2000
\* characters
ButtonValueWithinBudget ==
    pc = "truncated" => json_len(button_value) <= max_length

DexInit ==
    /\ pc = "handlers"
    /\ AgentIdle
    /\ FilterIdle
    /\ ButtonIdle
    /\ ScriptsIdle
    /\ _command_lock = {}
    /\ _recent_commands = <<>>
    /\ invocations = <<>>
    /\ cleanup_threads = {}
    /\ configured \in BOOLEAN

Running == DOMAIN invocations

(* The calls an invocation has made so far include this one. *)
has_called(i, call) == call \in Range(invocations[i].steps)

(* Slack delivers a command or an action and Bolt starts its handler. *)
Deliver(arrivals) ==
    /\ pc = "handlers"
    /\ Len(invocations) < MaxInvocations
    /\ \E handler \in Handlers :
         \E a \in (IF handler = "dex" THEN arrivals ELSE {NoArrival}) :
           invocations' =
               Append(invocations, Invocation(handler, a.command, a.current_time))
    /\ UNCHANGED <<pc, _command_lock, _recent_commands, cleanup_threads, configured,
                   filter_vars, button_vars, agent_vars, script_vars>>

Arrive == Deliver(DexArrivals)

(* ack(), in /dex with its retry, and in /dex the question and the key:  *)
(* nothing later in the handler depends on the command or on the time    *)
(* otherwise, so the invocation stops carrying them.                     *)
Ack(i) ==
    /\ invocations[i].pc = "start"
    /\ \E first_ok \in BOOLEAN :
         \E second_ok \in (IF invocations[i].handler = "dex" /\ ~first_ok
                           THEN BOOLEAN ELSE {FALSE}) :
           LET inv == invocations[i]
               ack_ok == first_ok \/ second_ok
               is_dex == inv.handler = "dex"
           IN  invocations' =
                   [invocations EXCEPT ![i] =
                       [inv EXCEPT !.pc = after_ack(inv.handler, ack_ok),
                                   !.command = NoCommand,
                                   !.current_time = 0,
                                   !.ack_ok = ack_ok,
                                   !.steps = ack_calls(inv.handler, first_ok),
                                   !.question =
                                       IF is_dex THEN question_of(inv.command)
                                       ELSE <<>>,
                                   !.command_key =
                                       IF is_dex
                                       THEN command_key(inv.command, inv.current_time)
                                       ELSE NoKey]]
    /\ UNCHANGED <<pc, _command_lock, _recent_commands, cleanup_threads, configured,
                   filter_vars, button_vars, agent_vars, script_vars>>

(* if command_key in _command_lock: return *)
CheckLock(i) ==
    /\ invocations[i].pc = "check_lock"
    /\ invocations' =
           [invocations EXCEPT ![i].pc =
               IF invocations[i].command_key \in _command_lock
               THEN "done" ELSE "check_recent"]
    /\ UNCHANGED <<pc, _command_lock, _recent_commands, cleanup_threads, configured,
                   filter_vars, button_vars, agent_vars, script_vars>>

(* if command_key in _recent_commands: return *)
CheckRecent(i) ==
    /\ invocations[i].pc = "check_recent"
    /\ invocations' =
           [invocations EXCEPT ![i].pc =
               IF invocations[i].command_key \in Range(_recent_commands)
               THEN "done" ELSE "mark_lock"]
    /\ UNCHANGED <<pc, _command_lock, _recent_commands, cleanup_threads, configured,
                   filter_vars, button_vars, agent_vars, script_vars>>

(* _command_lock[command_key] = current_time *)
MarkLock(i) ==
    /\ invocations[i].pc = "mark_lock"
    /\ _command_lock' = _command_lock \cup {invocations[i].command_key}
    /\ invocations' = [invocations EXCEPT ![i].pc = "mark_recent"]
    /\ UNCHANGED <<pc, _recent_commands, cleanup_threads, configured,
                   filter_vars, button_vars, agent_vars, script_vars>>

(* _recent_commands.append(command_key), and the branch on the question *)
(* and on the configuration.                                            *)
MarkRecent(i) ==
    /\ invocations[i].pc = "mark_recent"
    /\ _recent_commands' = deque_append(_recent_commands, invocations[i].command_key)
    /\ invocations' =
           [invocations EXCEPT ![i].pc =
               IF invocations[i].question = <<>> THEN "welcome"
               ELSE IF ~configured THEN "unconfigured"
               ELSE "agent"]
    /\ UNCHANGED <<pc, _command_lock, cleanup_threads, configured,
                   filter_vars, button_vars, agent_vars, script_vars>>

(* What the handler's outer except does: it tries to respond and, in its *)
(* finally, deletes the key at once.                                     *)
outer_except(i) ==
    _command_lock' = _command_lock \ {invocations[i].command_key}

(* The empty question: the welcome message, then return. When respond or *)
(* the fallback post raises, the outer except runs.                      *)
Welcome(i) ==
    /\ invocations[i].pc = "welcome"
    /\ \/ /\ invocations' =
                [invocations EXCEPT ![i].pc = "done",
                     ![i].steps = @ \o <<"respond", "chat_postMessage">>]
          /\ UNCHANGED _command_lock
       \/ /\ invocations' =
                [invocations EXCEPT ![i].pc = "done",
                     ![i].steps = @ \o <<"respond", "respond">>]
          /\ outer_except(i)
    /\ UNCHANGED <<pc, _recent_commands, cleanup_threads, configured,
                   filter_vars, button_vars, agent_vars, script_vars>>

(* AGENT_ENDPOINT or PAT is missing: respond says so. *)
Unconfigured(i) ==
    /\ invocations[i].pc = "unconfigured"
    /\ \/ /\ invocations' =
                [invocations EXCEPT ![i].pc = "done",
                     ![i].steps = @ \o <<"respond">>]
          /\ UNCHANGED _command_lock
       \/ /\ invocations' =
                [invocations EXCEPT ![i].pc = "done",
                     ![i].steps = @ \o <<"respond", "respond">>]
          /\ outer_except(i)
    /\ UNCHANGED <<pc, _recent_commands, cleanup_threads, configured,
                   filter_vars, button_vars, agent_vars, script_vars>>

(* The calls of the inner try, by how far it gets: the initial post      *)
(* raises, the answer is posted, or posting the answer raises as well as *)
(* the respond that stands in for it.                                    *)
inner_try(outcome) ==
    IF outcome = "post_failed" THEN <<"chat_postMessage">>
    ELSE IF outcome = "answered"
    THEN <<"chat_postMessage", "call_cortex_agent", "format_slack_response",
           "chat_update">>
    ELSE <<"chat_postMessage", "call_cortex_agent", "format_slack_response",
           "chat_update", "respond">>

(* The inner try with its except and finally: the finally starts the     *)
(* cleanup_lock thread on every way out. When the respond of the except  *)
(* raises too, the outer except runs after the finally.                  *)
Agent(i) ==
    /\ invocations[i].pc = "agent"
    /\ \E outcome \in {"answered", "post_failed", "reply_failed", "respond_failed"} :
         /\ invocations' =
                [invocations EXCEPT ![i].pc = "done",
                     ![i].steps =
                         @ \o inner_try(outcome)
                           \o (IF outcome = "answered" THEN <<>> ELSE <<"respond">>)
                           \o (IF outcome = "respond_failed" THEN <<"respond">>
                               ELSE <<>>)]
         /\ IF outcome = "respond_failed"
            THEN outer_except(i)
            ELSE UNCHANGED _command_lock
    /\ cleanup_threads' = cleanup_threads \cup {i}
    /\ UNCHANGED <<pc, _recent_commands, configured,
                   filter_vars, button_vars, agent_vars, script_vars>>

(* cleanup_lock, once its sleep is over. *)
cleanup_lock(i) ==
    /\ i \in cleanup_threads
    /\ _command_lock' = _command_lock \ {invocations[i].command_key}
    /\ cleanup_threads' = cleanup_threads \ {i}
    /\ UNCHANGED <<pc, _recent_commands, invocations, configured,
                   filter_vars, button_vars, agent_vars, script_vars>>

(* What /dex-help and the two button handlers call after ack(). *)
body_calls(handler) ==
    IF handler = "dex_help" THEN <<"respond">>
    ELSE IF handler = "quick_question"
    THEN <<"chat_postMessage", "call_cortex_agent", "format_slack_response",
           "chat_update">>
    ELSE <<"chat_update">>

(* The rest of /dex-help, quick_question and show_query_details: the     *)
(* button handlers answer an exception with respond, which may raise in  *)
(* its turn; /dex-help has no try.                                       *)
Body(i) ==
    /\ invocations[i].pc = "body"
    /\ LET handler == invocations[i].handler
       IN  \/ invocations' =
                 [invocations EXCEPT ![i].pc = "done",
                      ![i].steps = @ \o body_calls(handler)]
           \/ /\ handler # "dex_help"
              /\ invocations' =
                     [invocations EXCEPT ![i].pc = "done",
                          ![i].steps = @ \o body_calls(handler) \o <<"respond">>]
           \/ invocations' =
                 [invocations EXCEPT ![i].pc = "raised",
                      ![i].steps = @ \o <<"respond">>]
    /\ UNCHANGED <<pc, _command_lock, _recent_commands, cleanup_threads, configured,
                   filter_vars, button_vars, agent_vars, script_vars>>

DexNext ==
    \/ Arrive
    \/ \E i \in Running : Ack(i)
    \/ \E i \in Running : CheckLock(i)
    \/ \E i \in Running : CheckRecent(i)
    \/ \E i \in Running : MarkLock(i)
    \/ \E i \in Running : MarkRecent(i)
    \/ \E i \in Running : Welcome(i)
    \/ \E i \in Running : Unconfigured(i)
    \/ \E i \in Running : Agent(i)
    \/ \E i \in Running : cleanup_lock(i)
    \/ \E i \in Running : Body(i)

SpecDex == DexInit /\ [][DexNext]_vars

(***************************************************************************)
(* Specification of the handlers when a command or action is delivered     *)
(* only after the handlers of the earlier ones have returned               *)
(***************************************************************************)
SerialArrivals ==
    DexArrivals \cup {Arrival(Command(<<>>, <<>>, UserU1, QuestionHowMany), 6)}

returned(i) == invocations[i].pc \in {"done", "raised"}

ArriveNext ==
    /\ \A i \in Running : returned(i)
    /\ Deliver(SerialArrivals)

SerialNext ==
    \/ ArriveNext
    \/ \E i \in Running : Ack(i)
    \/ \E i \in Running : CheckLock(i)
    \/ \E i \in Running : CheckRecent(i)
    \/ \E i \in Running : MarkLock(i)
    \/ \E i \in Running : MarkRecent(i)
    \/ \E i \in Running : Welcome(i)
    \/ \E i \in Running : Unconfigured(i)
    \/ \E i \in Running : Agent(i)
    \/ \E i \in Running : cleanup_lock(i)
    \/ \E i \in Running : Body(i)

SpecDexSerial == DexInit /\ [][SerialNext]_vars

(***************************************************************************)
(* Properties of the handlers                                              *)
(***************************************************************************)
is_dex(i) == invocations[i].handler = "dex"

finished(i) == returned(i)

(* C12: of the /dex invocations that compute the same command key, at most *)
(* one passes the two checks and calls call_cortex_agent.                  *)
OneInvocationPerKey ==
    \A i, j \in Running :
        /\ i # j
        /\ is_dex(i) /\ is_dex(j)
        /\ invocations[i].command_key = invocations[j].command_key
        /\ has_called(i, "call_cortex_agent")
        => ~has_called(j, "call_cortex_agent")

(* C13: a key recorded in _command_lock is removed again on every way out  *)
(* of the handler: once every invocation has ended and every cleanup       *)
(* thread has run, no key is left.                                         *)
KeysReleased ==
    /\ \A i \in Running : finished(i)
    /\ cleanup_threads = {}
    => _command_lock = {}

(* C14: ack() is the first call of every handler, on every execution, and  *)
(* a failing ack() never ends the /dex handler.                            *)
AckAttemptedFirst ==
    \A i \in Running :
        /\ invocations[i].pc # "start" => invocations[i].steps # <<>>
        /\ invocations[i].steps # <<>> => invocations[i].steps[1] = "ack"
        /\ is_dex(i) => invocations[i].pc # "raised"

(* Both acks of a /dex command failed, the question was answered all the   *)
(* same, and a second /dex command was acknowledged and then ignored as a  *)
(* duplicate.                                                              *)
UnacknowledgedCommandAnswered ==
    \E i, j \in Running :
        /\ is_dex(i) /\ is_dex(j)
        /\ ~invocations[i].ack_ok
        /\ has_called(i, "call_cortex_agent")
        /\ invocations[i].pc = "done"
        /\ invocations[j].pc = "done"
        /\ invocations[j].steps = <<"ack">>

(***************************************************************************)
(* Properties of the handlers, one delivery after the other                *)
(***************************************************************************)
(* The invocation was ignored as a duplicate: it returned after ack(). *)
ignored(i) ==
    invocations[i].pc = "done" /\ Range(invocations[i].steps) = {"ack"}

(* The invocation posted the agent's answer. *)
answered(i) ==
    /\ invocations[i].pc = "done"
    /\ invocations[i].steps[Len(invocations[i].steps)] = "chat_update"

(* C23 as claimed: once a /dex command was answered and its cleanup thread *)
(* has removed the key, the recent-commands check lets a new invocation    *)
(* with the same key through.                                              *)
ProcessedAgainAfterCleanup ==
    [][\A j \in Running :
         (/\ invocations[j].pc = "check_recent"
          /\ \E i \in Running :
                /\ i # j
                /\ is_dex(i)
                /\ invocations[i].command_key = invocations[j].command_key
                /\ answered(i)
                /\ i \notin cleanup_threads)
            => invocations'[j].pc \in {"check_recent", "mark_lock"}]_vars

(* The key was built from user, question and time: no id has a colon. *)
is_fallback_key(key) == ":" \in Range(key.id)

(* C24 as claimed: /dex commands without ids, of the same user and with    *)
(* the same question, that arrive less than 5 seconds apart get the same   *)
(* key, and the later one is ignored as a duplicate.                       *)
CloseCommandsShareKey ==
    (\A a, b \in SerialArrivals : a.current_time - b.current_time < 5)
        => \A i, j \in Running :
              (/\ i < j
               /\ is_dex(i) /\ is_dex(j)
               /\ invocations[i].pc # "start" /\ invocations[j].pc # "start"
               /\ is_fallback_key(invocations[i].command_key)
               /\ invocations[i].command_key.id = invocations[j].command_key.id)
                 => /\ invocations[i].command_key = invocations[j].command_key
                    /\ returned(j) => ignored(j)

(***************************************************************************)
(* Specification of the details button: the answer is posted, then the     *)
(* button of the message is clicked again and again                        *)
(***************************************************************************)
MaxClicks == 3

\* SQL of a response: none, a statement without a list, and lists of one or two
DetailsSql ==
    {<<NoneStr, <<>> >>, <<SomeStr(Run(8, 1)), <<>> >>}
        \cup {<<l[1], l>> :
                 l \in UNION {[1..n -> {SomeStr(Run(8, 1)), SomeStr(Run(5000, 1)),
                                        SomeStr(Run(600, 2))}] : n \in 1..2}}

\* The response dicts, each with the question it answers
DetailsPool ==
    {[answer |-> a, sql_query |-> q[1], sql_queries |-> q[2], interpretation |-> i,
      verified |-> v, processing_time_len |-> t, question |-> qu, action |-> "show"] :
        a \in {SomeStr(<<>>), SomeStr(Run(120, 1)), SomeStr(Run(400, 1))},
        q \in DetailsSql,
        i \in {NoneStr, SomeStr(Run(50, 1))}, v \in BOOLEAN, t \in {4, 18},
        qu \in {SomeStr(<<>>), SomeStr(Run(40, 1)), SomeStr(Run(250, 2))}}

DetailsInit ==
    /\ pc = "format"
    /\ data \in DetailsPool
    /\ button_value = NoData
    /\ blocks = NoBlocks
    /\ clicks = 0
    /\ FilterIdle
    /\ AgentIdle
    /\ DexIdle
    /\ ScriptsIdle

\* format_slack_response, and the message posted with its blocks
FormatSlackResponse ==
    /\ pc = "format"
    /\ blocks' = format_blocks(data)
    /\ button_value' = IF format_blocks(data).has_button THEN format_button(data)
                       ELSE NoData
    /\ pc' = IF format_blocks(data).has_button THEN "posted" ELSE "no_button"
    /\ UNCHANGED <<data, clicks, filter_vars, agent_vars, dex_vars, script_vars>>

\* handle_show_query_details for a click on the button of the message
ShowQueryDetails ==
    /\ pc = "posted"
    /\ clicks < MaxClicks
    /\ blocks' = details_blocks(button_value)
    /\ button_value' = details_button(button_value)
    /\ clicks' = clicks + 1
    /\ UNCHANGED <<pc, data, filter_vars, agent_vars, dex_vars, script_vars>>

DetailsNext == FormatSlackResponse \/ ShowQueryDetails

SpecDetails == DetailsInit /\ [][DetailsNext]_vars

(***************************************************************************)
(* Properties of the details button                                        *)
(***************************************************************************)
\* C25 as claimed: after "Show Query Details" and then "Hide Query Details" the
\* message has the blocks format_slack_response built, with the same button
ShowThenHideRestores ==
    (pc = "posted" /\ clicks = 2)
        => blocks = format_blocks(data) /\ button_value = format_button(data)

\* C26: a click leaves every field of the button's payload as it was, except the
\* action, which goes from show to hide and back, and it shows the details exactly
\* when the payload clicked did not say hide
PayloadKeptAcrossClicks ==
    [][clicks' = clicks + 1
         => /\ [button_value' EXCEPT !.action = button_value.action] = button_value
            /\ button_value.action \in {"show", "hide"}
            /\ button_value'.action = (IF button_value.action = "show" THEN "hide"
                                       ELSE "show")
            /\ (blocks'.view = "details") <=> (button_value.action # "hide")]_vars

\* C26 witness: the button was clicked three times, its payload holds two SQL
\* statements, one of them cut by truncate_button_value, and an answer it capped,
\* and the details are shown
TruncatedPayloadClickedThrice ==
    /\ pc = "posted" /\ clicks = 3
    /\ blocks.view = "details"
    /\ Len(button_value.sql_queries) = 2
    /\ \E i \in 1..2 : run_len(button_value.sql_queries[i].s)
                           < run_len(data.sql_queries[i].s)
    /\ run_len(button_value.answer.s) < run_len(data.answer.s)

(***************************************************************************)
(* Specification of kpi_sheet_automation from the headers of the sheet on  *)
(***************************************************************************)
MaxTailRows == 1

\* The rows of the latest month: a KPI with two rows, and a KPI the mapping does not name
Frames ==
    {<<[KPI_DISPLAY |-> Str("Solar"), KPI_VALUE |-> IntValue("12"), MONTH |-> "November 2026"],
       [KPI_DISPLAY |-> Str("BESS"), KPI_VALUE |-> FloatValue("1.5"), MONTH |-> "November 2026"],
       [KPI_DISPLAY |-> Str("EV"), KPI_VALUE |-> NaN, MONTH |-> "November 2026"],
       [KPI_DISPLAY |-> Str("HVAC"), KPI_VALUE |-> NoneValue, MONTH |-> "November 2026"],
       [KPI_DISPLAY |-> Str("Chargebox"), KPI_VALUE |-> FloatValue(inf),
        MONTH |-> "November 2026"],
       [KPI_DISPLAY |-> Str("Churned Customers"), KPI_VALUE |-> IntValue("5"),
        MONTH |-> "November 2026"],
       [KPI_DISPLAY |-> NaN, KPI_VALUE |-> IntValue("3"), MONTH |-> "November 2026"],
       [KPI_DISPLAY |-> Str("Churned Customers"), KPI_VALUE |-> IntValue("7"),
        MONTH |-> "November 2026"]>> : inf \in {"inf", "-inf"}}

\* Row 1: with the latest month, without it, and with it twice
HeaderRows ==
    {<<"KPI", "Type", "October 2026", "November 2026">>,
     <<"KPI", "Type", "September 2026", "October 2026">>,
     <<"KPI", "Type", "November 2026", "October 2026", "November 2026">>}

SheetRow(kpi, type) == [kpi |-> kpi, type |-> type]

\* The rows a sheet ends with; an empty cell at the end of a column is not read
TailRows ==
    {SheetRow("Solar", "Automated"), SheetRow("EV", "Automated"),
     SheetRow("HVAC", "Automated"), SheetRow("Chargebox", "Automated"),
     SheetRow("Churned Customers", "Automated"), SheetRow("Unknown", "Automated"),
     SheetRow("Solar", "Manual"), SheetRow("BESS", ""), SheetRow("", "Automated")}

\* The numbers of automated rows before them: none, one chunk, and two chunks
FillerCounts == {0, BATCH_SIZE - 1, BATCH_SIZE + 1}

Sheets ==
    {<<SheetRow("KPI", "Type")>> \o [k \in 1..n |-> SheetRow("BESS", "Automated")] \o tail :
        n \in FillerCounts,
        tail \in UNION {[1..m -> TailRows] : m \in 0..MaxTailRows}}

\* What a call of batch_update meets
BatchOutcomes ==
    {Written,
     APIError(429, <<"Quota exceeded for quota metric 'Write requests'">>),
     APIError(400, <<"Unable to parse range: KPI!D", "429">>),
     APIError(500, <<"Internal error encountered.">>),
     ConnectionError}

\* A call of batch_update: where its chunk starts in pending_updates, how many updates
\* it holds, whether it is the call after the sleep, and what it met
BatchCall(start, chunk, retry, outcome) ==
    [start |-> start, size |-> Len(chunk), retry |-> retry, outcome |-> outcome]

KpiInit ==
    /\ pc = "kpi_headers"
    /\ sheet_rows \in Sheets
    /\ headers \in HeaderRows
    /\ df \in Frames
    /\ month_col = 0
    /\ pending_updates = <<>>
    /\ updated_count = 0
    /\ skipped_count = 0
    /\ flush_i = 0
    /\ batch_calls = <<>>
    /\ cells = {}
    /\ PayexIdle
    /\ AgentIdle
    /\ FilterIdle
    /\ ButtonIdle
    /\ DexIdle

\* Lines 186-193: the latest month is looked up in row 1
CheckHeaders ==
    /\ pc = "kpi_headers"
    /\ IF \E c \in DOMAIN headers : headers[c] = latest_month_str_of(df)
       THEN /\ month_col' = header_col(headers, latest_month_str_of(df))
            /\ pc' = "kpi_queue"
       ELSE pc' = "kpi_raised" /\ UNCHANGED month_col
    /\ UNCHANGED <<sheet_rows, headers, df, pending_updates, updated_count, skipped_count,
                   flush_i, batch_calls, cells, payex_vars, filter_vars, button_vars,
                   agent_vars, dex_vars>>

\* Lines 196-225: the columns are read and the updates queued
QueueUpdates ==
    /\ pc = "kpi_queue"
    /\ LET q == queue_updates(col_values(sheet_rows, "kpi"), col_values(sheet_rows, "type"),
                              latest_map_of(df), month_col)
       IN /\ pending_updates' = q.pending_updates
          /\ updated_count' = q.updated_count
          /\ skipped_count' = q.skipped_count
    /\ pc' = "kpi_flush"
    /\ UNCHANGED <<sheet_rows, headers, df, month_col, flush_i, batch_calls, cells,
                   payex_vars, filter_vars, button_vars, agent_vars, dex_vars>>

\* Lines 228-232 and 237-238: a chunk is sent
BatchUpdate ==
    /\ pc = "kpi_flush"
    /\ flush_i < Len(pending_updates)
    /\ \E outcome \in BatchOutcomes :
          LET chunk == chunk_at(pending_updates, flush_i)
          IN /\ batch_calls' = Append(batch_calls, BatchCall(flush_i, chunk, FALSE, outcome))
             /\ IF outcome.raises = "no"
                THEN /\ cells' = cells \cup cells_of(chunk)
                     /\ flush_i' = flush_i + BATCH_SIZE
                     /\ UNCHANGED pc
                ELSE IF outcome.raises = "APIError" /\ has_429(outcome)
                THEN pc' = "kpi_sleep" /\ UNCHANGED <<cells, flush_i>>
                ELSE pc' = "kpi_raised" /\ UNCHANGED <<cells, flush_i>>
    /\ UNCHANGED <<sheet_rows, headers, df, month_col, pending_updates, updated_count,
                   skipped_count, payex_vars, filter_vars, button_vars, agent_vars,
                   dex_vars>>

\* Lines 233-236: after time.sleep(2) the chunk is sent again
RetryBatchUpdate ==
    /\ pc = "kpi_sleep"
    /\ \E outcome \in BatchOutcomes :
          LET chunk == chunk_at(pending_updates, flush_i)
          IN /\ batch_calls' = Append(batch_calls, BatchCall(flush_i, chunk, TRUE, outcome))
             /\ IF outcome.raises = "no"
                THEN /\ cells' = cells \cup cells_of(chunk)
                     /\ flush_i' = flush_i + BATCH_SIZE
                     /\ pc' = "kpi_flush"
                ELSE pc' = "kpi_raised" /\ UNCHANGED <<cells, flush_i>>
    /\ UNCHANGED <<sheet_rows, headers, df, month_col, pending_updates, updated_count,
                   skipped_count, payex_vars, filter_vars, button_vars, agent_vars,
                   dex_vars>>

\* Lines 240-245: the summary is printed
Summary ==
    /\ pc = "kpi_flush"
    /\ flush_i >= Len(pending_updates)
    /\ pc' = "kpi_done"
    /\ UNCHANGED <<kpi_vars, payex_vars, filter_vars, button_vars, agent_vars, dex_vars>>

KpiNext == CheckHeaders \/ QueueUpdates \/ BatchUpdate \/ RetryBatchUpdate \/ Summary

SpecKpi == KpiInit /\ [][KpiNext]_vars

(***************************************************************************)
(* Properties of kpi_sheet_automation                                      *)
(***************************************************************************)
\* The values of a KPI in the rows of the latest month that are numbers
finite_values(kpi) ==
    {df[j].KPI_VALUE : j \in {m \in DOMAIN df : df[m].KPI_DISPLAY = Str(kpi)}}
        \ {NoneValue, NaN, FloatValue("inf"), FloatValue("-inf")}

\* The sheet rows that are to be written
is_automated_row(r) ==
    /\ r \in 2..Len(sheet_rows)
    /\ sheet_rows[r].type = "Automated"
    /\ finite_values(sheet_rows[r].kpi) # {}
automated_rows == {r \in 2..Len(sheet_rows) : is_automated_row(r)}

month_cols == {c \in DOMAIN headers : headers[c] = latest_month_str_of(df)}

\* C28: every cell written is the cell of an automated row with a number for the
\* latest month, in a column of that month and with such a number; when the script
\* ends each of these rows has exactly one cell written and the summary counts them;
\* and without the latest month in row 1 the script raises with nothing sent
OnlyAutomatedCellsWritten ==
    pc \in {"kpi_queue", "kpi_flush", "kpi_sleep", "kpi_raised", "kpi_done"}
        => /\ \A cell \in cells :
                 /\ is_automated_row(cell.range.digits)
                 /\ \E c \in month_cols : cell.range.letters = ColumnLetters[c]
                 /\ cell.value \in finite_values(sheet_rows[cell.range.digits].kpi)
           /\ pc = "kpi_done"
                 => /\ {cell.range.digits : cell \in cells} = automated_rows
                    /\ Cardinality(cells) = Cardinality(automated_rows)
                    /\ updated_count = Cardinality(automated_rows)
           /\ month_cols = {}
                 => pc = "kpi_raised" /\ batch_calls = <<>> /\ cells = {}

\* C28 witness: the script ended on a sheet with more automated rows than a chunk
\* holds and a last row whose value is NaN, with a cell written for each row but the
\* last
AutomatedRowsWrittenInChunks ==
    /\ pc = "kpi_done"
    /\ sheet_rows[Len(sheet_rows)] = SheetRow("EV", "Automated")
    /\ Cardinality(cells) = Len(sheet_rows) - 2
    /\ Cardinality(cells) > BATCH_SIZE
    /\ skipped_count = 1

\* C29 as claimed: a chunk is sent again only after a rate-limit response, that is
\* a response with code 429
OnlyRateLimitRetried ==
    \A k \in DOMAIN batch_calls :
        batch_calls[k].retry => batch_calls[k - 1].outcome.code = 429

(***************************************************************************)
(* Specification of fetch_payment_types_parallel: the main thread submits  *)
(* the fetches and collects them as they complete, the threads of the pool *)
(* run them                                                                *)
(***************************************************************************)
MaxCustomers == 3
MaxWorkers == 2

\* The batch of n customers; from the third on a customer id comes again
BatchOf(n) == [k \in 1..n |-> 101 + (k % 2)]

ResponsePool ==
    {Response(200, CustomerBody(Str(<<1, 0, 1>>), "Ann", <<"Autogiro", "Kivra">>)),
     Response(200, CustomerBody(IntValue(102), "Bob", <<>>)),
     Response(200, NoBody),
     Response(404, NoBody),
     Response(500, CustomerBody(IntValue(102), "Bob", <<"EBoks">>)),
     RequestException}

PayexInit ==
    /\ pc = "parallel"
    /\ \E n \in 1..MaxCustomers :
          /\ customer_ids = BatchOf(n)
          /\ responses \in [1..n -> ResponsePool]
    /\ max_workers \in 1..MaxWorkers
    /\ futures = <<>>
    /\ records = <<>>
    /\ done_count = 0
    /\ KpiIdle
    /\ AgentIdle
    /\ FilterIdle
    /\ ButtonIdle
    /\ DexIdle

in_flight == {k \in DOMAIN futures : futures[k].state = "running"}
work_queue == {k \in DOMAIN futures : futures[k].state = "queued"}

\* executor.submit for the next customer id of the batch
Submit ==
    /\ pc = "parallel"
    /\ Len(futures) < Len(customer_ids)
    /\ futures' = Append(futures, Future(customer_ids[Len(futures) + 1], "queued", NoFetched))
    /\ UNCHANGED <<pc, customer_ids, responses, max_workers, records, done_count, kpi_vars,
                   filter_vars, button_vars, agent_vars, dex_vars>>

\* A thread of the pool takes the first work item of the queue
StartFetch ==
    /\ pc = "parallel"
    /\ work_queue # {}
    /\ Cardinality(in_flight) < max_workers
    /\ futures' = [futures EXCEPT ![MinOf(work_queue)].state = "running"]
    /\ UNCHANGED <<pc, customer_ids, responses, max_workers, records, done_count, kpi_vars,
                   filter_vars, button_vars, agent_vars, dex_vars>>

\* fetch_one_customer returns in its thread, after the delay
FinishFetch(k) ==
    /\ pc = "parallel"
    /\ k \in in_flight
    /\ futures' = [futures EXCEPT ![k].state = "finished",
                                  ![k].fetched = fetch_one_customer(futures[k].cid,
                                                                    responses[k])]
    /\ UNCHANGED <<pc, customer_ids, responses, max_workers, records, done_count, kpi_vars,
                   filter_vars, button_vars, agent_vars, dex_vars>>

\* as_completed yields a finished future and the loop body handles its result
Collect(k) ==
    /\ pc = "parallel"
    /\ Len(futures) = Len(customer_ids)
    /\ k \in DOMAIN futures
    /\ futures[k].state = "finished"
    /\ futures' = [futures EXCEPT ![k].state = "yielded"]
    /\ done_count' = done_count + 1
    /\ records' = IF futures[k].fetched.ok THEN Append(records, futures[k].fetched.record)
                  ELSE records
    /\ UNCHANGED <<pc, customer_ids, responses, max_workers, kpi_vars, filter_vars,
                   button_vars, agent_vars, dex_vars>>

\* Every future was yielded: the executor shuts down and records is returned
ReturnRecords ==
    /\ pc = "parallel"
    /\ Len(futures) = Len(customer_ids)
    /\ \A k \in DOMAIN futures : futures[k].state = "yielded"
    /\ pc' = "returned"
    /\ UNCHANGED <<payex_vars, kpi_vars, filter_vars, button_vars, agent_vars, dex_vars>>

PayexNext ==
    \/ Submit
    \/ StartFetch
    \/ \E k \in 1..MaxCustomers : FinishFetch(k)
    \/ \E k \in 1..MaxCustomers : Collect(k)
    \/ ReturnRecords

SpecPayex == PayexInit /\ [][PayexNext]_vars

(***************************************************************************)
(* Properties of fetch_payment_types_parallel                              *)
(***************************************************************************)
\* The number of times each element occurs in a sequence
multiset(s) == [x \in Range(s) |-> Cardinality({k \in DOMAIN s : s[k] = x})]

\* The customers of the batch whose request returned status 200 with a body a record
\* is built from
found == {k \in DOMAIN customer_ids :
             /\ ~responses[k].raises
             /\ responses[k].status_code = 200
             /\ ~int_raises(responses[k].data.customerNo)}

\* C30: the futures are the customers of the batch in order, one each, never more than
\* max_workers of them running; the function goes on until it returns; and the
\* records it returns are, as a multiset, those of the customers found, which are the
\* records of fetch_payment_types_serial
ParallelRecordsAsSerial ==
    pc \in {"parallel", "returned"}
        => /\ Len(futures) <= Len(customer_ids)
           /\ \A k \in DOMAIN futures : futures[k].cid = customer_ids[k]
           /\ Cardinality(in_flight) <= max_workers
           /\ pc = "parallel" => ENABLED PayexNext
           /\ pc = "returned"
                 => /\ Len(futures) = Len(customer_ids)
                    /\ done_count = Len(customer_ids)
                    /\ Len(records) = Cardinality(found)
                    /\ \A k \in found :
                          multiset(records)[record_of(responses[k].data)]
                              = Cardinality({m \in found : record_of(responses[m].data)
                                                              = record_of(responses[k].data)})
                    /\ multiset(records)
                          = multiset(fetch_payment_types_serial(customer_ids, responses))

\* C30 witness: three customers were fetched by two threads and the function
\* returned the record of the second, the first having met an exception and the
\* third a 404
RecordReturnedDespiteFailures ==
    /\ pc = "returned"
    /\ Len(customer_ids) = 3 /\ max_workers = 2
    /\ responses[1].raises
    /\ responses[3].status_code = 404
    /\ found = {2}
    /\ records = <<record_of(responses[2].data)>>
====
